---------------------------- MODULE Spec2Model ----------------------------
(***************************************************************************)
(* PhotoRename (src/main.py): EXIF extraction, file-name planning, the     *)
(* rename executor and the PhotoRenamerApp orchestrator.                   *)
(*                                                                         *)
(* Text is modelled as a sequence of one-character strings, so that string *)
(* formatting (f"{base_name}_{counter}{extension}"), stripping, parsing    *)
(* and lexical sorting are computed and not assumed.                       *)
(***************************************************************************)
EXTENDS Integers, Sequences, FiniteSets, TLC

VARIABLES
    disk,             \* the filesystem: a set of [path, content] files
    lists,            \* heap of Python list objects holding file paths
    selected_files,   \* PhotoRenamerApp.selected_files: a reference into lists
    preview_results,  \* PhotoRenamerApp.preview_results
    results_of,       \* history: the list object preview_results was computed from
    rename_completed, \* PhotoRenamerApp.rename_completed
    rename_btn,       \* rename_btn.isEnabled()
    preview_btn,      \* preview_btn.isEnabled()
    folder_label,     \* folder_label text: the selected folder, or NoFolder
    table,            \* the preview table, column "new name"
    timers,           \* pending QTimer.singleShot(500, self.preview_names)
    scans,            \* every ExifWorker created so far
    renames,          \* every RenameWorker created so far
    mainq,            \* finished signals queued for the main thread, oldest first
    ext_moves,        \* history: changes made to the folder by other programs
    accepted,         \* history: rename phases accepted since the last folder selection
    selections,       \* history: number of folder selections made
    aborted,          \* the process was aborted by Qt (a running QThread destroyed)
    arg,              \* input of the pure function under check
    ret,              \* its result
    libc_pads_year    \* whether the C library's strftime pads %Y to four digits

vars == <<disk, lists, selected_files, preview_results, results_of, rename_completed,
          rename_btn, preview_btn, folder_label, table, timers, scans, renames,
          mainq, ext_moves, accepted, selections, aborted, arg, ret, libc_pads_year>>

appVars == <<disk, lists, selected_files, preview_results, results_of, rename_completed,
             rename_btn, preview_btn, folder_label, table, timers, scans, renames,
             mainq, ext_moves, accepted, selections, aborted, libc_pads_year>>

None == "None"

----------------------------------------------------------------------------
(* Text                                                                     *)

\* The characters used, in ASCII order (Python compares str by code point), and
\* their codes.
AsciiOrder ==
    <<" ", "-", ".", "/", "0", "1", "2", "3", "4", "5", "6", "7", "8", "9", ":", "A",
      "B", "C", "D", "E", "F", "G", "H", "I", "J", "K", "L", "M", "N", "O", "P", "Q",
      "R", "S", "T", "U", "V", "W", "X", "Y", "Z", "_", "a", "b", "c", "d", "e", "f",
      "g", "h", "i", "j", "k", "l", "m", "n", "o", "p", "q", "r", "s", "t", "u", "v",
      "w", "x", "y", "z">>

AsciiCodes ==
    <<32, 45, 46, 47, 48, 49, 50, 51, 52, 53, 54, 55, 56, 57, 58, 65,
      66, 67, 68, 69, 70, 71, 72, 73, 74, 75, 76, 77, 78, 79, 80, 81,
      82, 83, 84, 85, 86, 87, 88, 89, 90, 95, 97, 98, 99, 100, 101, 102,
      103, 104, 105, 106, 107, 108, 109, 110, 111, 112, 113, 114, 115, 116, 117, 118,
      119, 120, 121, 122>>

Ord(ch) == CHOOSE i \in 1..Len(AsciiOrder) : AsciiOrder[i] = ch

\* s < t for Python str: the first differing character decides, a proper prefix is smaller.
RECURSIVE StrLess(_, _)
StrLess(s, t) ==
    IF t = <<>> THEN FALSE
    ELSE IF s = <<>> THEN TRUE
    ELSE IF Head(s) = Head(t) THEN StrLess(Tail(s), Tail(t))
    ELSE Ord(Head(s)) < Ord(Head(t))

DigitChars == <<"0", "1", "2", "3", "4", "5", "6", "7", "8", "9">>

\* str(n) for an int n >= 0, as in the f-string "{counter}".
RECURSIVE Str(_)
Str(n) == IF n < 10 THEN <<DigitChars[n + 1]>>
          ELSE Str(n \div 10) \o <<DigitChars[(n % 10) + 1]>>

\* os.path.join(folder, name), os.path.dirname(path), os.path.basename(path):
\* a path is the pair of its folder and its file name.
Join(folder, name) == <<folder, name>>
DirName(path) == path[1]
BaseName(path) == path[2]

\* os.path.exists(path) on filesystem d.
Exists(d, path) == \E f \in d : f.path = path

----------------------------------------------------------------------------
(* Filename planner                                                         *)

\* f"{base_name}{extension}" and f"{base_name}_{counter}{extension}"
Plain(base_name, extension) == base_name \o extension
Suffixed(base_name, counter, extension) == base_name \o <<"_">> \o Str(counter) \o extension

\* PhotoRenamerApp.generate_unique_filename_preview, the while True loop from counter
RECURSIVE PreviewLoop(_, _, _, _)
PreviewLoop(base_name, extension, existing_names, counter) ==
    LET candidate == Suffixed(base_name, counter, extension)
    IN  IF candidate \notin existing_names THEN candidate
        ELSE PreviewLoop(base_name, extension, existing_names, counter + 1)

\* Mutant: the suffix is not looked up in existing_names.
generate_unique_filename_preview_first(base_name, extension, existing_names) ==
    IF Plain(base_name, extension) \notin existing_names
    THEN Plain(base_name, extension)
    ELSE Suffixed(base_name, 1, extension)

generate_unique_filename_preview(base_name, extension, existing_names) ==
    IF Plain(base_name, extension) \notin existing_names
    THEN Plain(base_name, extension)
    ELSE PreviewLoop(base_name, extension, existing_names, 1)

\* PhotoRenamerApp.generate_unique_filename_actual, the while True loop from counter;
\* d is the filesystem os.path.exists looks at.
RECURSIVE ActualLoop(_, _, _, _, _, _)
ActualLoop(base_name, extension, folder_path, used_names, d, counter) ==
    LET candidate == Suffixed(base_name, counter, extension)
    IN  IF candidate \notin used_names /\ ~Exists(d, Join(folder_path, candidate))
        THEN candidate
        ELSE ActualLoop(base_name, extension, folder_path, used_names, d, counter + 1)

\* Mutant: the suffixes are tried from 2.
generate_unique_filename_actual_from2(base_name, extension, folder_path, used_names, d) ==
    IF \/ Plain(base_name, extension) \in used_names
       \/ Exists(d, Join(folder_path, Plain(base_name, extension)))
    THEN ActualLoop(base_name, extension, folder_path, used_names, d, 2)
    ELSE Plain(base_name, extension)

\* Mutant: the filesystem is not consulted (the preview algorithm is used).
generate_unique_filename_actual_nodisk(base_name, extension, folder_path, used_names, d) ==
    generate_unique_filename_preview(base_name, extension, used_names)

generate_unique_filename_actual(base_name, extension, folder_path, used_names, d) ==
    IF \/ Plain(base_name, extension) \in used_names
       \/ Exists(d, Join(folder_path, Plain(base_name, extension)))
    THEN ActualLoop(base_name, extension, folder_path, used_names, d, 1)
    ELSE Plain(base_name, extension)

----------------------------------------------------------------------------
(* DateTime normalizer: ExifWorker.format_datetime_string                   *)

\* The not-found value of the extraction code, a string no timestamp equals.
UnknownTime == <<"UNKNOWN_TIME">>
\* The default camera model, "Unknown".
UnknownModel == <<"U", "n", "k", "n", "o", "w", "n">>
\* The all-zero timestamp "0000:00:00 00:00:00".
Sentinel == <<"0", "0", "0", "0", ":", "0", "0", ":", "0", "0", " ",
              "0", "0", ":", "0", "0", ":", "0", "0">>

IsSpace(ch) == ch = " "
IsDigit(ch) == ch \in {"0", "1", "2", "3", "4", "5", "6", "7", "8", "9"}

RECURSIVE LStrip(_)
LStrip(s) == IF s # <<>> /\ IsSpace(Head(s)) THEN LStrip(Tail(s)) ELSE s

RECURSIVE RStrip(_)
RStrip(s) == IF s # <<>> /\ IsSpace(s[Len(s)]) THEN RStrip(SubSeq(s, 1, Len(s) - 1)) ELSE s

\* str.strip()
Strip(s) == RStrip(LStrip(s))

\* str.replace(" ", "")
RECURSIVE RemoveSpaces(_)
RemoveSpaces(s) ==
    IF s = <<>> THEN <<>>
    ELSE IF Head(s) = " " THEN RemoveSpaces(Tail(s))
    ELSE <<Head(s)>> \o RemoveSpaces(Tail(s))

\* The formats list, each format as its directives and literal characters.
Formats ==
    << <<"%Y", ":", "%m", ":", "%d", " ", "%H", ":", "%M", ":", "%S">>,
       <<"%Y", "-", "%m", "-", "%d", " ", "%H", ":", "%M", ":", "%S">>,
       <<"%Y", "/", "%m", "/", "%d", " ", "%H", ":", "%M", ":", "%S">>,
       <<"%Y", ":", "%m", ":", "%d", " ", "%H", ":", "%M", ":", "%S", ".", "%f">>,
       <<"%Y", "-", "%m", "-", "%d", " ", "%H", ":", "%M", ":", "%S", ".", "%f">>,
       <<"%Y", "-", "%m", "-", "%d", "T", "%H", ":", "%M", ":", "%S">>,
       <<"%Y", "-", "%m", "-", "%d", "T", "%H", ":", "%M", ":", "%S", "Z">>,
       <<"%Y", ":", "%m", ":", "%d", " ", "%H", ":", "%M">>,
       <<"%Y", "-", "%m", "-", "%d", " ", "%H", ":", "%M">>,
       <<"%Y", "/", "%m", "/", "%d", " ", "%H", ":", "%M">> >>

Directives == {"%Y", "%m", "%d", "%H", "%M", "%S", "%f"}

\* The outcome of a match that failed (ValueError).
NoMatch == [d \in Directives |-> -1]

\* The length of the longest prefix of s made of digits.
RECURSIVE DigitRun(_)
DigitRun(s) == IF s # <<>> /\ IsDigit(Head(s)) THEN 1 + DigitRun(Tail(s)) ELSE 0

\* int(text) of a digit string.
RECURSIVE IntOf(_)
IntOf(s) == IF s = <<>> THEN 0
            ELSE 10 * IntOf(SubSeq(s, 1, Len(s) - 1))
                 + (CHOOSE v \in 0..9 : DigitChars[v + 1] = s[Len(s)])

\* Whether the digit string run is matched whole by the directive's regular
\* expression of _strptime (%Y \d\d\d\d, %m 1[0-2]|0[1-9]|[1-9], %d 3[0-1]|[1-2]\d|0[1-9]|[1-9],
\* %H 2[0-3]|[0-1]\d|\d, %M [0-5]\d|\d, %S 6[0-1]|[0-5]\d|\d, %f [0-9]{1,6}).
FieldOk(d, run) ==
    LET n == Len(run)
        v == IntOf(run)
    IN  CASE d = "%Y" -> n = 4
          [] d = "%m" -> n \in 1..2 /\ v \in 1..12
          [] d = "%d" -> n \in 1..2 /\ v \in 1..31
          [] d = "%H" -> n \in 1..2 /\ v \in 0..23
          [] d = "%M" -> n \in 1..2 /\ v \in 0..59
          [] d = "%S" -> n \in 1..2 /\ v \in 0..61
          [] d = "%f" -> n \in 1..6


\* re.IGNORECASE on the literal characters of a format.
Upper(ch) == IF ch = "t" THEN "T" ELSE IF ch = "z" THEN "Z" ELSE ch

\* str.lower()
Lower(s) ==
    [i \in 1..Len(s) |->
        IF Ord(s[i]) \in Ord("A")..Ord("Z") THEN AsciiOrder[Ord(s[i]) - Ord("A") + Ord("a")]
        ELSE s[i]]

\* The regular-expression match of _strptime: fmt against s, fields found so far in acc.
\* Every numeric field is followed by a non-digit literal or by the end of the format,
\* so a field is the whole digit run; a blank of the format is \s+; %d also accepts a
\* blank followed by one digit 1-9; text left over is "unconverted data remains".
RECURSIVE StrpMatch(_, _, _)
StrpMatch(fmt, s, acc) ==
    IF fmt = <<>> THEN (IF s = <<>> THEN acc ELSE NoMatch)
    ELSE LET tok == Head(fmt) IN
         IF tok \in Directives
         THEN IF tok = "%d" /\ Len(s) >= 2 /\ s[1] = " " /\ IsDigit(s[2]) /\ s[2] # "0"
              THEN StrpMatch(Tail(fmt), SubSeq(s, 3, Len(s)), [acc EXCEPT ![tok] = IntOf(<<s[2]>>)])
              ELSE LET n == DigitRun(s)
                       run == SubSeq(s, 1, n)
                   IN  IF n > 0 /\ FieldOk(tok, run)
                       THEN StrpMatch(Tail(fmt), SubSeq(s, n + 1, Len(s)),
                                      [acc EXCEPT ![tok] = IntOf(run)])
                       ELSE NoMatch
         ELSE IF tok = " "
         THEN IF s # <<>> /\ IsSpace(Head(s)) THEN StrpMatch(Tail(fmt), LStrip(s), acc)
              ELSE NoMatch
         ELSE IF s # <<>> /\ Upper(Head(s)) = Upper(tok)
              THEN StrpMatch(Tail(fmt), Tail(s), acc)
              ELSE NoMatch

IsLeap(y) == (y % 4 = 0 /\ y % 100 # 0) \/ y % 400 = 0

DaysInMonth(y, m) ==
    IF m = 2 THEN (IF IsLeap(y) THEN 29 ELSE 28)
    ELSE IF m \in {4, 6, 9, 11} THEN 30 ELSE 31

\* datetime.strptime(s, fmt): the fields, or NoMatch where it raises ValueError
\* (no match, text left over, or field values datetime() refuses).
StrpTime(s, fmt) ==
    LET f == StrpMatch(fmt, s, [d \in Directives |-> 0])
    IN  IF f = NoMatch THEN NoMatch
        ELSE IF /\ f["%Y"] >= 1
                /\ f["%d"] <= DaysInMonth(f["%Y"], f["%m"])
                /\ f["%S"] <= 59
             THEN f
             ELSE NoMatch

\* A number zero-padded to width w.
RECURSIVE Pad(_, _)
Pad(s, w) == IF Len(s) >= w THEN s ELSE Pad(<<"0">> \o s, w)

\* dt_obj.strftime("%Y%m%d_%H%M%S"). The C library formats %Y: a year below 1000 is
\* zero-padded to four digits by some libraries and left as it is by others.
StrfTime(f) ==
    Pad(Str(f["%Y"]), IF libc_pads_year THEN 4 ELSE 1)
    \o Pad(Str(f["%m"]), 2) \o Pad(Str(f["%d"]), 2) \o <<"_">>
    \o Pad(Str(f["%H"]), 2) \o Pad(Str(f["%M"]), 2) \o Pad(Str(f["%S"]), 2)

\* The for fmt in formats loop, from format number k.
RECURSIVE FormatLoop(_, _)
FormatLoop(s, k) ==
    IF k > Len(Formats) THEN UnknownTime
    ELSE LET f == StrpTime(Strip(s), Formats[k])
         IN  IF f # NoMatch THEN StrfTime(f) ELSE FormatLoop(s, k + 1)

format_datetime_string(date_time_str) ==
    IF date_time_str = <<>> THEN UnknownTime ELSE FormatLoop(date_time_str, 1)

----------------------------------------------------------------------------
(* Structured tag search: ExifWorker.parse_exif_with_pil                    *)

\* exifdata is the tag dictionary in its enumeration order: a sequence of
\* <<tag, value>> with distinct tags, tag being TAGS.get(tag_id, tag_id) and value
\* the text of the raw value (decoded when bytes, str() otherwise).

\* Mutant: DateTime is looked for before DateTimeOriginal.
time_fields_swapped ==
    <<"DateTime", "DateTimeOriginal", "DateTimeDigitized", "CreateDate", "ModifyDate">>

\* time_fields, in priority order
time_fields ==
    <<"DateTimeOriginal", "DateTime", "DateTimeDigitized", "CreateDate", "ModifyDate">>

IsTimeField(tag) == \E k \in 1..Len(time_fields) : time_fields[k] = tag

\* date_time = None
NoDate == <<>>

\* Mutant: every non-empty value is taken.
UsableNonEmpty(value) == value # <<>>

\* if value and value != "0000:00:00 00:00:00"
Usable(value) == value # <<>> /\ value # Sentinel

\* The elif tag == "Model" / elif tag == "Make" branches, on the parse state st.
CaptureCamera(tag, raw_value, st) ==
    IF tag = "Model"
    THEN [st EXCEPT !.camera_model = RemoveSpaces(Strip(raw_value))]
    ELSE IF tag = "Make" /\ Strip(raw_value) # <<>> /\ st.camera_model = UnknownModel
         THEN [st EXCEPT !.camera_model = RemoveSpaces(Strip(raw_value))]
         ELSE st

\* for tag_id in exifdata, inside for field in time_fields: from entry i.
RECURSIVE FieldScan(_, _, _, _)
FieldScan(field, exifdata, i, st) ==
    IF i > Len(exifdata) THEN st
    ELSE LET tag == exifdata[i][1]
             raw_value == exifdata[i][2]
         IN  IF tag = field
             THEN IF Usable(Strip(raw_value))
                  THEN [st EXCEPT !.date_time = Strip(raw_value)]
                  ELSE FieldScan(field, exifdata, i + 1, st)
             ELSE FieldScan(field, exifdata, i + 1, CaptureCamera(tag, raw_value, st))

\* for field in time_fields, from field number k; stops once date_time is set.
RECURSIVE PriorityScan(_, _, _)
PriorityScan(exifdata, k, st) ==
    IF k > Len(time_fields) THEN st
    ELSE LET st2 == FieldScan(time_fields[k], exifdata, 1, st)
         IN  IF st2.date_time # NoDate THEN st2 ELSE PriorityScan(exifdata, k + 1, st2)

\* The second pass (if not date_time): any tag of time_fields, in enumeration order.
RECURSIVE AnyScan(_, _, _)
AnyScan(exifdata, i, st) ==
    IF i > Len(exifdata) THEN st
    ELSE LET tag == exifdata[i][1]
             raw_value == exifdata[i][2]
         IN  IF IsTimeField(tag)
             THEN IF Usable(Strip(raw_value))
                  THEN [st EXCEPT !.date_time = Strip(raw_value)]
                  ELSE AnyScan(exifdata, i + 1, st)
             ELSE AnyScan(exifdata, i + 1, CaptureCamera(tag, raw_value, st))

\* Returns <<date_time, camera_model>>.
parse_exif_with_pil(exifdata) ==
    LET st0 == [date_time |-> NoDate, camera_model |-> UnknownModel]
        st1 == PriorityScan(exifdata, 1, st0)
        st2 == IF st1.date_time = NoDate THEN AnyScan(exifdata, 1, st1) ELSE st1
        formatted_datetime == format_datetime_string(st2.date_time)
    IN  IF st2.date_time # NoDate /\ formatted_datetime # UnknownTime
        THEN <<formatted_datetime, st2.camera_model>>
        ELSE <<UnknownTime, st2.camera_model>>

----------------------------------------------------------------------------
(* Manual binary scan: parse_raw_exif, parse_tiff_data, parse_ifd           *)

\* Bytes are sequences of numbers 0..255.

Min(a, b) == IF a < b THEN a ELSE b

\* data[pos : pos + n] for offsets from 0 (also f.read(n) at offset pos).
Slice(data, pos, n) ==
    IF pos >= Len(data) \/ n <= 0 THEN <<>>
    ELSE SubSeq(data, pos + 1, Min(pos + n, Len(data)))

\* struct.unpack of 2 or 4 bytes, endian "<" or ">".
RECURSIVE BigEndian(_)
BigEndian(b) == IF b = <<>> THEN 0 ELSE 256 * BigEndian(SubSeq(b, 1, Len(b) - 1)) + b[Len(b)]

RECURSIVE Reverse(_)
Reverse(b) == IF b = <<>> THEN <<>> ELSE Append(Reverse(Tail(b)), Head(b))

Unpack(endian, b) == IF endian = ">" THEN BigEndian(b) ELSE BigEndian(Reverse(b))

NUL == "NUL"

\* bytes.decode('utf-8', errors='ignore') of bytes that are NUL, a character of
\* AsciiOrder, or a byte from 128 that starts no valid sequence (dropped).
RECURSIVE Decode(_)
Decode(b) ==
    IF b = <<>> THEN <<>>
    ELSE IF Head(b) = 0 THEN <<NUL>> \o Decode(Tail(b))
    ELSE IF \E i \in 1..Len(AsciiCodes) : AsciiCodes[i] = Head(b)
         THEN <<AsciiOrder[CHOOSE i \in 1..Len(AsciiCodes) : AsciiCodes[i] = Head(b)]>>
              \o Decode(Tail(b))
         ELSE Decode(Tail(b))

\* str.strip('\x00')
RECURSIVE StripNul(_)
StripNul(s) ==
    IF s # <<>> /\ Head(s) = NUL THEN StripNul(Tail(s))
    ELSE IF s # <<>> /\ s[Len(s)] = NUL THEN StripNul(SubSeq(s, 1, Len(s) - 1))
    ELSE s

\* The result ("未知时间", "Unknown") of the binary stages.
UnknownPair == <<UnknownTime, UnknownModel>>

\* The value bytes of an IFD entry when they are read (count > 4, the offset inside
\* the block, count bytes available); <<>> otherwise.
EntryValue(tiff_data, count, value_offset) ==
    IF count > 4 /\ value_offset < Len(tiff_data)
       /\ Len(Slice(tiff_data, value_offset, count)) >= count
    THEN Slice(tiff_data, value_offset, count)
    ELSE <<>>

\* One pass of "for i in range(num_entries)" on entry i; st is <<date_time, camera_model>>.
IfdEntry(tiff_data, entry_start, endian, i, st) ==
    LET entry_offset == entry_start + i * 12
        entry_data == Slice(tiff_data, entry_offset, 12)
        tag_id == Unpack(endian, SubSeq(entry_data, 1, 2))
        count == Unpack(endian, SubSeq(entry_data, 5, 8))
        value_offset == Unpack(endian, SubSeq(entry_data, 9, 12))
        value_data == EntryValue(tiff_data, count, value_offset)
    IN  IF entry_offset + 12 > Len(tiff_data) THEN st
        ELSE IF tag_id \in {306, 36867, 36868}
        THEN LET date_str == StripNul(Decode(value_data))
             IN  IF count < 20 /\ value_data # <<>> /\ date_str # <<>> /\ date_str # Sentinel
                    /\ format_datetime_string(date_str) # UnknownTime
                 THEN <<format_datetime_string(date_str), st[2]>>
                 ELSE st
        ELSE IF tag_id = 272
        THEN LET model_str == RemoveSpaces(Strip(StripNul(Decode(value_data))))
             IN  IF value_data # <<>> /\ model_str # <<>> THEN <<st[1], model_str>> ELSE st
        ELSE IF tag_id = 271
        THEN LET make_str == RemoveSpaces(Strip(StripNul(Decode(value_data))))
             IN  IF value_data # <<>> /\ make_str # <<>> /\ st[2] = UnknownModel
                 THEN <<st[1], make_str>>
                 ELSE st
        ELSE st

RECURSIVE IfdLoop(_, _, _, _, _, _)
IfdLoop(tiff_data, entry_start, endian, i, num_entries, st) ==
    IF i >= num_entries THEN st
    ELSE IfdLoop(tiff_data, entry_start, endian, i + 1, num_entries,
                 IfdEntry(tiff_data, entry_start, endian, i, st))

parse_ifd(tiff_data, offset, endian) ==
    IF offset + 2 > Len(tiff_data) THEN UnknownPair
    ELSE IfdLoop(tiff_data, offset + 2, endian, 0,
                 Unpack(endian, Slice(tiff_data, offset, 2)), UnknownPair)

parse_tiff_data(tiff_data) ==
    IF Len(tiff_data) < 8 THEN UnknownPair
    ELSE LET byte_order == SubSeq(tiff_data, 1, 2)
             endian == IF byte_order = <<73, 73>> THEN "<" ELSE ">"
         IN  IF byte_order # <<73, 73>> /\ byte_order # <<77, 77>> THEN UnknownPair
             ELSE IF Unpack(endian, SubSeq(tiff_data, 3, 4)) # 42 THEN UnknownPair
             ELSE parse_ifd(tiff_data, Unpack(endian, SubSeq(tiff_data, 5, 8)), endian)

\* b'Exif\x00\x00'
ExifSignature == <<69, 120, 105, 102, 0, 0>>

\* The while True loop of parse_raw_exif with the file at offset pos. A length field
\* cut short raises struct.error and f.read(length - 2) with length 0 raises ValueError:
\* both are caught and give the unknown pair; f.read(-1) reads to the end of the file.
RECURSIVE MarkerWalk(_, _)
MarkerWalk(data, pos) ==
    LET marker == Slice(data, pos, 2)
        length_bytes == Slice(data, pos + 2, 2)
        length == BigEndian(length_bytes)
        exif_data == IF length = 1 THEN Slice(data, pos + 4, Len(data))
                     ELSE Slice(data, pos + 4, length - 2)
    IN  IF Len(marker) < 2 \/ marker[1] # 255 THEN UnknownPair
        ELSE IF marker[2] = 225
        THEN IF Len(length_bytes) < 2 \/ length = 0 THEN UnknownPair
             ELSE IF SubSeq(exif_data, 1, Min(6, Len(exif_data))) = ExifSignature
                  THEN parse_tiff_data(SubSeq(exif_data, 7, Len(exif_data)))
                  ELSE MarkerWalk(data, pos + 4 + Len(exif_data))
        ELSE IF marker[2] \in 224..239
        THEN IF Len(length_bytes) < 2 THEN UnknownPair
             ELSE MarkerWalk(data, pos + 4 + length - 2)
        ELSE UnknownPair

\* raw is what open(filepath, 'rb') gives: [readable, bytes]; a failed open is caught.
parse_raw_exif(raw) ==
    IF ~raw.readable THEN UnknownPair
    ELSE IF Slice(raw.bytes, 0, 2) # <<255, 216>> THEN UnknownPair
    ELSE MarkerWalk(raw.bytes, 2)

----------------------------------------------------------------------------
(* Extraction engine: get_advanced_exif_data and the body of process_files   *)

\* What a file's content gives the four access stages:
\*   stages[1] image.getexif(), stages[2] image._getexif(), stages[3] image._exif,
\*   each [fault, tags]: fault when Image.open or the accessor raises, tags the
\*   dictionary obtained (empty when the accessor is absent or returns nothing);
\*   raw: [readable, bytes], what open(filepath, 'rb') gives.
Faulting == [fault |-> TRUE, tags |-> <<>>]

\* The content seen at a path that names no file: every open raises.
MissingContent ==
    [stages |-> <<Faulting, Faulting, Faulting>>, raw |-> [readable |-> FALSE, bytes |-> <<>>]]

\* Mutant: a stage whose timestamp value does not normalize returns the value as found.
StageResultUnformatted(stage) ==
    IF stage.fault \/ stage.tags = <<>> THEN UnknownPair
    ELSE LET r == parse_exif_with_pil(stage.tags)
             found == {i \in 1..Len(stage.tags) :
                          IsTimeField(stage.tags[i][1]) /\ Usable(Strip(stage.tags[i][2]))}
         IN  IF r[1] = UnknownTime /\ found # {}
             THEN <<Strip(stage.tags[CHOOSE i \in found : TRUE][2]), r[2]>>
             ELSE r

\* One of the stages 1-3: the pair found, or the unknown pair when the stage raises
\* (except: pass) or has no dictionary.
StageResult(stage) ==
    IF stage.fault \/ stage.tags = <<>> THEN UnknownPair ELSE parse_exif_with_pil(stage.tags)

\* The stages from number k on, then the fall-through return.
\* Returns <<date_time, camera_model, error_msg>>.
RECURSIVE StageChain(_, _)
StageChain(content, k) ==
    IF k <= 3
    THEN LET r == StageResult(content.stages[k])
         IN  IF r[1] # UnknownTime THEN <<r[1], r[2], "None">> ELSE StageChain(content, k + 1)
    ELSE LET r == parse_raw_exif(content.raw)
         IN  IF r[1] # UnknownTime THEN <<r[1], r[2], "None">>
             ELSE <<UnknownTime, UnknownModel, "NoExif">>

\* error_msg is "None", "NoExif" ("无EXIF信息") or "Error" ("错误: ..."); every statement
\* that can raise sits in an inner try, so the outer handler returns nothing.
get_advanced_exif_data(content) == StageChain(content, 1)

\* os.path.splitext(old_name)[1]: from the last dot, when a character other than a
\* dot precedes it.
RECURSIVE LastDot(_, _)
LastDot(name, i) == IF i = 0 THEN 0 ELSE IF name[i] = "." THEN i ELSE LastDot(name, i - 1)

SplitExt(name) ==
    LET i == LastDot(name, Len(name))
    IN  IF i > 1 /\ \E j \in 1..(i - 1) : name[j] # "."
        THEN SubSeq(name, i, Len(name))
        ELSE <<>>

Heic == <<".", "h", "e", "i", "c">>
Heif == <<".", "h", "e", "i", "f">>

\* The result records of process_files; a key a record does not have is <<>>.
ResultRecord(filepath, date_time, camera_model, error, new_name, base_name, extension) ==
    [filepath |-> filepath, old_name |-> BaseName(filepath), date_time |-> date_time,
     camera_model |-> camera_model, error |-> error, new_name |-> new_name,
     base_name |-> base_name, extension |-> extension]

\* "无时间信息" and "无相机信息"
NoTimeInfo == <<"NO_TIME_INFO">>
NoCameraInfo == <<"NO_CAMERA_INFO">>

NoHeicPrefix == <<"N", "O", "H", "E", "I", "C", "_">>
ErrorPrefix == <<"E", "R", "R", "O", "R", "_">>
NoExifPrefix == <<"N", "O", "E", "X", "I", "F", "_">>

\* Mutant: the extension is compared as written.
HeicGateCaseSensitive(ext, heic_support) == ext \in {Heic, Heif} /\ ~heic_support

\* ext.lower() in ['.heic', '.heif'] and not HEIC_SUPPORT
HeicGate(ext, heic_support) == Lower(ext) \in {Heic, Heif} /\ ~heic_support

\* The body of the for loop of process_files for one file: content is what the file
\* at filepath holds now, heic_support is HEIC_SUPPORT, raised tells whether an
\* exception leaves the try block (except Exception: PROCESS_ERROR).
ProcessFile(filepath, content, heic_support, raised) ==
    LET old_name == BaseName(filepath)
        ext == SplitExt(old_name)
        data == get_advanced_exif_data(content)
    IN  IF raised
        THEN ResultRecord(filepath, <<>>, <<>>, "PROCESS_ERROR", ErrorPrefix \o old_name,
                          <<>>, <<>>)
        ELSE IF HeicGate(ext, heic_support)
        THEN ResultRecord(filepath, <<>>, <<>>, "NO_HEIC_SUPPORT", NoHeicPrefix \o old_name,
                          <<>>, <<>>)
        ELSE IF data[3] = "Error"
        THEN ResultRecord(filepath, <<>>, <<>>, "EXIF_ERROR", ErrorPrefix \o old_name,
                          <<>>, <<>>)
        ELSE IF data[1] = UnknownTime
        THEN ResultRecord(filepath, NoTimeInfo, NoCameraInfo, "NO_EXIF_TIME",
                          NoExifPrefix \o old_name, <<>>, <<>>)
        ELSE ResultRecord(filepath, data[1], data[2], "None", <<>>,
                          data[1] \o <<"_">> \o data[2], ext)

----------------------------------------------------------------------------
(* The application at rest, and the values the checks draw inputs from      *)

NoFolder == "NoFolder"

\* PhotoRenamerApp.__init__ and init_ui on filesystem d.
AppInit(d) ==
    /\ disk = d
    /\ lists = << <<>> >>
    /\ selected_files = 1
    /\ preview_results = <<>>
    /\ results_of = 0
    /\ rename_completed = FALSE
    /\ rename_btn = FALSE
    /\ preview_btn = TRUE
    /\ folder_label = NoFolder
    /\ table = <<>>
    /\ timers = 0
    /\ scans = <<>>
    /\ renames = <<>>
    /\ mainq = <<>>
    /\ ext_moves = 0
    /\ accepted = 0
    /\ selections = 0
    /\ aborted = FALSE

NoRet == [op |-> "none"]

Jpg == <<".", "j", "p", "g">>
T20210430 == <<"2", "0", "2", "1", "0", "4", "3", "0", "_", "0", "9", "0", "0", "0", "0">>
Canon == <<"C", "a", "n", "o", "n">>

\* "20210430_090000_Canon", and the base name that reads as its first suffixed form.
BaseCanon == T20210430 \o <<"_">> \o Canon
BaseCanon1 == BaseCanon \o <<"_", "1">>

----------------------------------------------------------------------------
(* Specification of the planner functions on drawn inputs                   *)

\* Largest suffix among the names drawn for the claimed set and the folder.
MaxSuffix == 2

PlanBases == {BaseCanon, BaseCanon1}

PlanPool ==
    {Plain(b, Jpg) : b \in PlanBases}
    \cup {Suffixed(b, k, Jpg) : b \in PlanBases, k \in 1..MaxSuffix}

\* The filesystem holding the files names in folder.
FolderOf(folder, names) == {[path |-> Join(folder, n), content |-> "plain"] : n \in names}

InitPlan ==
    /\ arg \in [base_name : PlanBases, extension : {Jpg}, folder_path : {"A"},
                claimed : SUBSET PlanPool, on_disk : SUBSET PlanPool]
    /\ ret = NoRet
    /\ AppInit({})
    /\ libc_pads_year \in BOOLEAN

CallPreview ==
    /\ ret.op = "none"
    /\ ret' = [op |-> "preview",
               name |-> generate_unique_filename_preview(arg.base_name, arg.extension,
                                                         arg.claimed)]
    /\ UNCHANGED <<arg, appVars>>

CallActual ==
    /\ ret.op = "none"
    /\ ret' = [op |-> "actual",
               name |-> generate_unique_filename_actual(
                            arg.base_name, arg.extension, arg.folder_path, arg.claimed,
                            FolderOf(arg.folder_path, arg.on_disk))]
    /\ UNCHANGED <<arg, appVars>>

NextPlan == CallPreview \/ CallActual

SpecPlan == InitPlan /\ [][NextPlan]_vars

\* A name is free in both senses of plan_actual.
FreeBoth(n) == n \notin arg.claimed /\ n \notin arg.on_disk

\* C3: plan_actual never returns a name that is claimed or that exists in the folder
\* (a name on disk is rejected even when it is not claimed); the result is
\* base_name+extension when that is free in both senses, and otherwise
\* base_name_k+extension for the smallest k >= 1 that is free in both senses.
C3_ActualDualCheck ==
    ret.op = "actual" =>
        /\ ret.name \notin arg.claimed
        /\ ret.name \notin arg.on_disk
        /\ IF FreeBoth(Plain(arg.base_name, arg.extension))
           THEN ret.name = Plain(arg.base_name, arg.extension)
           ELSE \E k \in 1..(Cardinality(arg.claimed) + Cardinality(arg.on_disk) + 1) :
                   /\ ret.name = Suffixed(arg.base_name, k, arg.extension)
                   /\ \A j \in 1..(k - 1) :
                         ~FreeBoth(Suffixed(arg.base_name, j, arg.extension))

\* A call where base_name+extension is on disk only, _1 is claimed only, and the
\* result is base_name_2+extension.
C3_Witness ==
    /\ ret.op = "actual"
    /\ arg.base_name = BaseCanon
    /\ Plain(BaseCanon, Jpg) \in arg.on_disk \ arg.claimed
    /\ Suffixed(BaseCanon, 1, Jpg) \in arg.claimed \ arg.on_disk
    /\ ret.name = Suffixed(BaseCanon, 2, Jpg)

\* C10: plan_preview returns base_name+extension when that is not claimed, otherwise
\* base_name_k+extension for the smallest k >= 1 not claimed; the result is never
\* claimed, k is at most the size of claimed (the loop ends), and the files of the
\* folder play no part.
C10_PreviewSmallestFree ==
    ret.op = "preview" =>
        /\ ret.name \notin arg.claimed
        /\ IF Plain(arg.base_name, arg.extension) \notin arg.claimed
           THEN ret.name = Plain(arg.base_name, arg.extension)
           ELSE \E k \in 1..Cardinality(arg.claimed) :
                   /\ ret.name = Suffixed(arg.base_name, k, arg.extension)
                   /\ \A j \in 1..(k - 1) :
                         Suffixed(arg.base_name, j, arg.extension) \in arg.claimed

\* The second call of the example: "20210430_090000_Canon.jpg" is claimed, the result
\* is "20210430_090000_Canon_1.jpg", which is on disk.
C10_Witness ==
    /\ ret.op = "preview"
    /\ arg.base_name = BaseCanon
    /\ arg.claimed = {Plain(BaseCanon, Jpg)}
    /\ Suffixed(BaseCanon, 1, Jpg) \in arg.on_disk
    /\ ret.name = <<"2", "0", "2", "1", "0", "4", "3", "0", "_", "0", "9", "0", "0", "0", "0",
                    "_", "C", "a", "n", "o", "n", "_", "1", ".", "j", "p", "g">>

----------------------------------------------------------------------------
(* Specification of the structured tag search on drawn tag dictionaries     *)

\* "2021:05:01 10:00:00" and "2021:04:30 09:00:00"
V20210501 == <<"2", "0", "2", "1", ":", "0", "5", ":", "0", "1", " ",
               "1", "0", ":", "0", "0", ":", "0", "0">>
V20210430 == <<"2", "0", "2", "1", ":", "0", "4", ":", "3", "0", " ",
               "0", "9", ":", "0", "0", ":", "0", "0">>
\* A value that is blank, and one that matches no format.
Blank == <<" ">>
Garbage == <<"x", "x">>

TimeValues == {V20210501, V20210430, Sentinel, Blank, Garbage}
CameraValues == {Canon, <<>>}
\* "Fuji Film"
FujiFilm == <<"F", "u", "j", "i", " ", "F", "i", "l", "m">>
MakeValues == {FujiFilm, <<>>}

\* Largest number of tags in a drawn dictionary.
MaxTags == 3

TagNames ==
    {"DateTimeOriginal", "DateTime", "DateTimeDigitized", "CreateDate", "ModifyDate",
     "Model", "Make"}

ValuesOf(tag) ==
    IF tag = "Model" THEN CameraValues ELSE IF tag = "Make" THEN MakeValues ELSE TimeValues

TagPairs ==
    {q \in TagNames \X (TimeValues \cup CameraValues \cup MakeValues) : q[2] \in ValuesOf(q[1])}

\* Every dictionary of exactly n distinct tags, in every enumeration order.
DictsOfLen(n) ==
    {e \in [1..n -> TagPairs] : \A i, j \in 1..n : i < j => e[i][1] # e[j][1]}

InitTags ==
    /\ \E n \in 0..MaxTags : arg \in [exifdata : DictsOfLen(n)]
    /\ ret = NoRet
    /\ AppInit({})
    \* every drawn timestamp has a four-digit year: the library's choice has no effect
    /\ libc_pads_year = FALSE

CallParse ==
    /\ ret.op = "none"
    /\ ret' = [op |-> "parse", result |-> parse_exif_with_pil(arg.exifdata)]
    /\ UNCHANGED <<arg, appVars>>

NextTags == CallParse

SpecTags == InitTags /\ [][NextTags]_vars

\* The priority order the claim states.
ClaimedPriority ==
    <<"DateTimeOriginal", "DateTime", "DateTimeDigitized", "CreateDate", "ModifyDate">>

\* The stripped value of tag in dictionary e.
ValueOfTag(e, tag) == Strip(e[CHOOSE i \in 1..Len(e) : e[i][1] = tag][2])

\* The priority ranks whose tag is present in e with a non-empty, non-sentinel value.
UsableRanks(e) ==
    {k \in 1..Len(ClaimedPriority) :
        /\ \E i \in 1..Len(e) : e[i][1] = ClaimedPriority[k]
        /\ ValueOfTag(e, ClaimedPriority[k]) # <<>>
        /\ ValueOfTag(e, ClaimedPriority[k]) # Sentinel}

BestRank(e) == CHOOSE k \in UsableRanks(e) : \A j \in UsableRanks(e) : k <= j

\* C8: the timestamp of the structured tag search is the normalized value of the
\* highest-priority tag (DateTimeOriginal > DateTime > DateTimeDigitized > CreateDate >
\* ModifyDate) that carries a non-empty, non-sentinel value, whatever the enumeration
\* order of the dictionary; DateTime=2021:05:01 10:00:00 with
\* DateTimeOriginal=2021:04:30 09:00:00 gives 20210430_090000.
C8_HighestPriorityTag ==
    ret.op = "parse" =>
        /\ ret.result[1] =
              IF UsableRanks(arg.exifdata) = {} THEN UnknownTime
              ELSE format_datetime_string(
                       ValueOfTag(arg.exifdata, ClaimedPriority[BestRank(arg.exifdata)]))
        /\ ( /\ \E i \in 1..Len(arg.exifdata) : arg.exifdata[i] = <<"DateTime", V20210501>>
             /\ \E i \in 1..Len(arg.exifdata) :
                   arg.exifdata[i] = <<"DateTimeOriginal", V20210430>> )
           => ret.result[1] = T20210430

\* The example, with DateTime enumerated before DateTimeOriginal.
C8_Witness ==
    /\ ret.op = "parse"
    /\ arg.exifdata = << <<"DateTime", V20210501>>, <<"DateTimeOriginal", V20210430>> >>
    /\ ret.result[1] = <<"2", "0", "2", "1", "0", "4", "3", "0", "_",
                         "0", "9", "0", "0", "0", "0">>

\* Whether tag is in dictionary e, and its value cleaned as a camera name.
HasTag(e, tag) == \E i \in 1..Len(e) : e[i][1] = tag

CleanedTag(e, tag) == RemoveSpaces(ValueOfTag(e, tag))

\* C20: the camera model of the structured tag search is the cleaned value of Model
\* when Model is present and non-empty, and otherwise the cleaned value of Make when
\* Make is present and non-empty, in whatever order the dictionary enumerates Model,
\* Make and the timestamp tags.
C20_ModelThenMake ==
    ret.op = "parse" =>
        LET e == arg.exifdata
        IN  IF HasTag(e, "Model") /\ CleanedTag(e, "Model") # <<>>
            THEN ret.result[2] = CleanedTag(e, "Model")
            ELSE (HasTag(e, "Make") /\ CleanedTag(e, "Make") # <<>>)
                     => ret.result[2] = CleanedTag(e, "Make")

----------------------------------------------------------------------------
(* Specification of the extraction of one file on drawn file contents       *)

\* A JPEG file whose APP1 segment holds a big-endian TIFF block with one IFD entry,
\* tag 306 with the 19 characters "2021:05:01 10:00:00".
JpegWithDateTime ==
    <<255, 216, 255, 225, 0, 53, 69, 120, 105, 102, 0, 0, 77, 77, 0, 42, 0, 0, 0, 8,
      0, 1, 1, 50, 0, 2, 0, 0, 0, 19, 0, 0, 0, 26, 0, 0, 0, 0, 50, 48,
      50, 49, 58, 48, 53, 58, 48, 49, 32, 49, 48, 58, 48, 48, 58, 48, 48>>

\* The same file with the DateTime value "2021:13:01 10:00:00", and that value.
JpegWithBadDate ==
    <<255, 216, 255, 225, 0, 53, 69, 120, 105, 102, 0, 0, 77, 77, 0, 42, 0, 0, 0, 8,
      0, 1, 1, 50, 0, 2, 0, 0, 0, 19, 0, 0, 0, 26, 0, 0, 0, 0, 50, 48,
      50, 49, 58, 49, 51, 58, 48, 49, 32, 49, 48, 58, 48, 48, 58, 48, 48>>
BadDate == <<"2", "0", "2", "1", ":", "1", "3", ":", "0", "1", " ",
             "1", "0", ":", "0", "0", ":", "0", "0">>

NameA == <<"a", ".", "j", "p", "g">>
NameHeic == <<"b", ".", "H", "E", "I", "C">>
NameHeif == <<"c", ".", "h", "e", "i", "f">>

\* The dictionaries and the file bytes the contents are drawn from.
StageTags ==
    { <<>>,
      << <<"DateTime", V20210501>> >>,
      << <<"Model", Canon>>, <<"DateTimeOriginal", Garbage>> >>,
      << <<"DateTimeOriginal", V20210430>>, <<"Make", Canon>> >> }

StageOutcomes == {Faulting} \cup {[fault |-> FALSE, tags |-> t] : t \in StageTags}

RawOutcomes ==
    { [readable |-> FALSE, bytes |-> <<>>],
      [readable |-> TRUE, bytes |-> <<>>],
      [readable |-> TRUE, bytes |-> <<255, 216, 255, 217>>],
      [readable |-> TRUE, bytes |-> JpegWithDateTime],
      [readable |-> TRUE, bytes |-> JpegWithBadDate] }

InitExtract ==
    /\ arg \in [name : {NameA, NameHeic, NameHeif}, heic_support : BOOLEAN,
                content : [stages : [1..3 -> StageOutcomes], raw : RawOutcomes]]
    /\ ret = NoRet
    /\ AppInit({})
    /\ libc_pads_year \in BOOLEAN

CallExtract ==
    /\ ret.op = "none"
    /\ \E raised \in BOOLEAN :
          ret' = [op |-> "extract", raised |-> raised,
                  result |-> ProcessFile(Join("A", arg.name), arg.content,
                                         arg.heic_support, raised)]
    /\ UNCHANGED <<arg, appVars>>

NextExtract == CallExtract

SpecExtract == InitExtract /\ [][NextExtract]_vars

\* A file no stage can open or read: every structured stage raises, and the file
\* cannot be opened for reading or has no bytes.
Unreadable(content) ==
    /\ \A k \in 1..3 : content.stages[k].fault
    /\ ~content.raw.readable \/ content.raw.bytes = <<>>

\* The file is stopped by the HEIC gate, before any stage.
Gated == Lower(SplitExt(arg.name)) \in {Heic, Heif} /\ ~arg.heic_support

\* C7: for a file that cannot be opened or read (every access stage faults) the
\* outcome is Failure(DecodeOrReadError), error EXIF_ERROR or PROCESS_ERROR, and not
\* NoUsableTimestamp (NO_EXIF_TIME) nor Success.
C7_UnreadableIsDecodeError ==
    (ret.op = "extract" /\ Unreadable(arg.content) /\ ~Gated)
        => ret.result.error \in {"EXIF_ERROR", "PROCESS_ERROR"}

\* The timestamp values a file holds: the values of the time tags of the dictionaries
\* its stages deliver, and the DateTime value in its bytes.
FileTimeValues(content) ==
    UNION {{content.stages[k].tags[i][2] : i \in {n \in 1..Len(content.stages[k].tags) :
                                                      IsTimeField(content.stages[k].tags[n][1])}} :
           k \in {n \in 1..3 : ~content.stages[n].fault}}
    \cup (IF content.raw.readable /\ content.raw.bytes = JpegWithDateTime THEN {V20210501}
          ELSE IF content.raw.readable /\ content.raw.bytes = JpegWithBadDate THEN {BadDate}
          ELSE {})

\* C11: a record without an error carries a timestamp that is the normalizer's output
\* for a timestamp value of the file, not that value itself, an empty text or a
\* placeholder, and a base_name equal to timestamp + "_" + camera_model; a file all of
\* whose timestamp values fail normalization gets NO_EXIF_TIME, not a Success.
C11_SuccessHasCanonicalTime ==
    ret.op = "extract" /\ ~ret.raised /\ ~Gated =>
        /\ ret.result.error = "None" =>
              /\ ret.result.date_time \notin {<<>>, UnknownTime, NoTimeInfo}
              /\ ret.result.date_time \notin FileTimeValues(arg.content)
              /\ \E v \in FileTimeValues(arg.content) :
                    format_datetime_string(Strip(v)) = ret.result.date_time
              /\ ret.result.base_name
                    = ret.result.date_time \o <<"_">> \o ret.result.camera_model
        /\ (\A v \in FileTimeValues(arg.content) :
               format_datetime_string(Strip(v)) = UnknownTime)
              => ret.result.error = "NO_EXIF_TIME"

\* A file whose first dictionary holds a malformed DateTimeOriginal and whose bytes
\* hold a malformed DateTime, and nothing else: NO_EXIF_TIME.
C11_Witness ==
    /\ ret.op = "extract" /\ ~ret.raised /\ ~Gated
    /\ Garbage \in FileTimeValues(arg.content)
    /\ BadDate \in FileTimeValues(arg.content)
    /\ \A v \in FileTimeValues(arg.content) : format_datetime_string(Strip(v)) = UnknownTime
    /\ ret.result.error = "NO_EXIF_TIME"
    /\ ret.result.date_time = NoTimeInfo

\* C16: a file named *.heic or *.heif, in any letter case, while HEIC_SUPPORT is off
\* gets the outcome NO_HEIC_SUPPORT whatever the file holds: no stage is asked, so
\* neither a timestamp the stages would find nor a fault they would raise shows in the
\* record. Every other file gets the record it gets with HEIC_SUPPORT on.
C16_HeicGate ==
    ret.op = "extract" /\ ~ret.raised =>
        IF Gated
        THEN ret.result = ResultRecord(Join("A", arg.name), <<>>, <<>>, "NO_HEIC_SUPPORT",
                                       NoHeicPrefix \o arg.name, <<>>, <<>>)
        ELSE /\ ret.result.error # "NO_HEIC_SUPPORT"
             /\ ret.result = ProcessFile(Join("A", arg.name), arg.content, TRUE, FALSE)

\* b.HEIC holding a well-formed timestamp, with HEIC_SUPPORT off.
C16_Witness ==
    /\ ret.op = "extract" /\ ~ret.raised
    /\ arg.name = NameHeic /\ ~arg.heic_support
    /\ ~arg.content.stages[1].fault
    /\ arg.content.stages[1].tags = << <<"DateTime", V20210501>> >>
    /\ ret.result.error = "NO_HEIC_SUPPORT"
    /\ ret.result.new_name = NoHeicPrefix \o NameHeic

\* What stage k of the chain finds in content: stages 1-3 are the tag dictionaries,
\* stage 4 is the binary scan.
FoundBy(content, k) ==
    IF k <= 3 THEN StageResult(content.stages[k]) ELSE parse_raw_exif(content.raw)

\* C23: when a stage finds a camera model but no timestamp that normalizes, and the
\* first stage that has a timestamp finds no model itself, the Success record carries
\* the model of the earlier stage, not "Unknown".
C23_ModelCarriedForward ==
    (ret.op = "extract" /\ ~ret.raised /\ ~Gated /\ ret.result.error = "None") =>
        \A j \in 2..4 : \A k \in 1..(j - 1) :
            (/\ \A i \in 1..(j - 1) : FoundBy(arg.content, i)[1] = UnknownTime
             /\ FoundBy(arg.content, j)[1] # UnknownTime
             /\ FoundBy(arg.content, j)[2] = UnknownModel
             /\ FoundBy(arg.content, k)[2] # UnknownModel)
                => ret.result.camera_model = FoundBy(arg.content, k)[2]

----------------------------------------------------------------------------
(* The filesystem                                                           *)

\* The files the application runs on: contents by name.
\*   "dated": getexif() gives DateTimeOriginal 2021:04:30 09:00:00 and Model Canon;
\*   "plain": a JPEG without EXIF, every accessor empty.
Contents ==
    [c \in {"dated", "plain"} |->
        IF c = "dated"
        THEN [stages |-> << [fault |-> FALSE,
                             tags |-> << <<"DateTimeOriginal", V20210430>>,
                                         <<"Model", Canon>> >>],
                            [fault |-> FALSE, tags |-> <<>>],
                            [fault |-> FALSE, tags |-> <<>>] >>,
              raw |-> [readable |-> TRUE, bytes |-> <<255, 216, 255, 217>>]]
        ELSE [stages |-> << [fault |-> FALSE, tags |-> <<>>],
                            [fault |-> FALSE, tags |-> <<>>],
                            [fault |-> FALSE, tags |-> <<>>] >>,
              raw |-> [readable |-> TRUE, bytes |-> <<255, 216, 255, 217>>]]]

\* What Image.open(path) and open(path, 'rb') find on filesystem d.
ContentAt(d, path) ==
    IF Exists(d, path) THEN Contents[(CHOOSE f \in d : f.path = path).content]
    ELSE MissingContent

\* os.rename(old_path, new_path) where old_path exists: the file takes the new path,
\* replacing a file already there.
OsRename(d, old_path, new_path) ==
    {f \in d : f.path # old_path /\ f.path # new_path}
    \cup {[path |-> new_path, content |-> (CHOOSE f \in d : f.path = old_path).content]}

\* image_extensions of select_folder
image_extensions ==
    { <<".", "j", "p", "g">>, <<".", "j", "p", "e", "g">>, <<".", "p", "n", "g">>,
      <<".", "g", "i", "f">>, <<".", "b", "m", "p">>, <<".", "t", "i", "f", "f">>,
      <<".", "w", "e", "b", "p">>, <<".", "c", "r", "2">>, <<".", "n", "e", "f">>,
      <<".", "a", "r", "w">>, <<".", "d", "n", "g">>, <<".", "o", "r", "f">>,
      <<".", "r", "w", "2">>, <<".", "p", "e", "f">>, Heic, Heif }

\* sorted(files) for files of one folder: the paths differ in the file name only.
RECURSIVE Sorted(_)
Sorted(paths) ==
    IF paths = {} THEN <<>>
    ELSE LET first == CHOOSE p \in paths :
                          \A q \in paths : q = p \/ StrLess(BaseName(p), BaseName(q))
         IN  <<first>> \o Sorted(paths \ {first})

\* The list select_folder builds from os.listdir(folder_path).
ListImages(d, folder_path) ==
    Sorted({f.path : f \in {g \in d : /\ DirName(g.path) = folder_path
                                      /\ Lower(SplitExt(BaseName(g.path))) \in image_extensions}})

----------------------------------------------------------------------------
(* Planning passes: update_preview_table and the task loop of rename_files  *)

\* The new-name column update_preview_table fills, from row i on.
RECURSIVE PreviewRows(_, _, _)
PreviewRows(results, i, used_names) ==
    IF i > Len(results) THEN <<>>
    ELSE IF results[i].error = "None"
    THEN LET new_name == generate_unique_filename_preview(
                             results[i].base_name, results[i].extension, used_names)
         IN  <<new_name>> \o PreviewRows(results, i + 1, used_names \cup {new_name})
    ELSE <<results[i].new_name>> \o PreviewRows(results, i + 1, used_names)

update_preview_table(results) == PreviewRows(results, 1, {})

\* The rename_tasks rename_files builds from preview_results on filesystem d, from
\* result i on.
RECURSIVE TaskLoop(_, _, _, _)
TaskLoop(results, i, used_names, d) ==
    IF i > Len(results) THEN <<>>
    ELSE IF results[i].error = "None"
    THEN LET folder_path == DirName(results[i].filepath)
             new_name == generate_unique_filename_actual(
                             results[i].base_name, results[i].extension, folder_path,
                             used_names, d)
         IN  << [filepath |-> results[i].filepath,
                 new_path |-> Join(folder_path, new_name),
                 base_name |-> results[i].base_name,
                 extension |-> results[i].extension] >>
             \o TaskLoop(results, i + 1, used_names \cup {new_name}, d)
    ELSE TaskLoop(results, i + 1, used_names, d)

\* Mutant: a task is built for every outcome, under its displayed name when it failed.
BuildTasksForAll(results, d) ==
    [i \in 1..Len(results) |->
        [filepath |-> results[i].filepath,
         new_path |-> Join(DirName(results[i].filepath),
                           IF results[i].error = "None"
                           THEN Plain(results[i].base_name, results[i].extension)
                           ELSE results[i].new_name),
         base_name |-> results[i].base_name,
         extension |-> results[i].extension]]

BuildTasks(results, d) == TaskLoop(results, 1, {}, d)

----------------------------------------------------------------------------
(* Rename executor: RenameWorker                                            *)

\* The while os.path.exists(new_path) loop of RenameWorker.rename_files.
RECURSIVE ExistsLoop(_, _, _, _)
ExistsLoop(task, d, new_path, counter) ==
    IF Exists(d, new_path)
    THEN ExistsLoop(task, d,
                    Join(DirName(task.filepath),
                         Suffixed(task.base_name, counter, task.extension)),
                    counter + 1)
    ELSE new_path

\* Mutant: the planned path is used as it is.
RenameTargetPlanned(task, d) == task.new_path

\* The path the executor renames task's file to on filesystem d.
RenameTarget(task, d) == ExistsLoop(task, d, task.new_path, 1)

\* The signals of a worker in the order of their emission: progress(current, total)
\* and finished.
ProgressSignal(current, total) == <<"progress", current, total>>

FinishedSignal == <<"finished", 0, 0>>

\* RenameWorker(rename_tasks); outcomes is the history of the per-file outcomes.
NewRenameWorker(rename_tasks) ==
    [rename_tasks |-> rename_tasks, pc |-> "running", i |-> 0,
     success_count |-> 0, error_count |-> 0, outcomes |-> <<>>, emitted |-> <<>>]

\* Mutant: a failure is counted and ends the loop.
AfterTaskStopOnError(w, ok, new_path) ==
    [w EXCEPT !.i = IF ok THEN @ + 1 ELSE Len(w.rename_tasks),
              !.success_count = IF ok THEN @ + 1 ELSE @,
              !.error_count = IF ok THEN @ ELSE @ + 1,
              !.outcomes = Append(@, [ok |-> ok, new_path |-> new_path])]

\* The worker after one pass of its for loop: ok tells whether os.rename returned.
AfterTask(w, ok, new_path) ==
    [w EXCEPT !.i = @ + 1,
              !.success_count = IF ok THEN @ + 1 ELSE @,
              !.error_count = IF ok THEN @ ELSE @ + 1,
              !.outcomes = Append(@, [ok |-> ok, new_path |-> new_path]),
              !.emitted = Append(@, ProgressSignal(w.i + 1, Len(w.rename_tasks)))]

\* One pass of the for loop of RenameWorker.rename_files for worker k: the target is
\* resolved against the filesystem as it is now, then os.rename is called; it raises
\* when the source is gone or, io_error, for another reason (permission, path length).
RenameStep(k) ==
    /\ ~aborted
    /\ renames[k].pc = "running"
    /\ renames[k].i < Len(renames[k].rename_tasks)
    /\ LET task == renames[k].rename_tasks[renames[k].i + 1]
           new_path == RenameTarget(task, disk)
       IN  \E io_error \in BOOLEAN :
              LET ok == Exists(disk, task.filepath) /\ ~io_error
              IN  /\ disk' = IF ok THEN OsRename(disk, task.filepath, new_path) ELSE disk
                  /\ renames' = [renames EXCEPT ![k] = AfterTask(@, ok, new_path)]
    /\ UNCHANGED <<lists, selected_files, preview_results, results_of, rename_completed,
                   rename_btn, preview_btn, folder_label, table, timers, scans, mainq,
                   ext_moves, accepted, selections, aborted,
                   arg, ret, libc_pads_year>>

\* The end of the loop: self.finished.emit(success_count, error_count).
RenameFinish(k) ==
    /\ ~aborted
    /\ renames[k].pc = "running"
    /\ renames[k].i >= Len(renames[k].rename_tasks)
    /\ renames' = [renames EXCEPT ![k].pc = "finished",
                                  ![k].emitted = Append(@, FinishedSignal)]
    /\ mainq' = Append(mainq, [signal |-> "rename_finished", worker |-> k])
    /\ UNCHANGED <<disk, lists, selected_files, preview_results, results_of,
                   rename_completed, rename_btn, preview_btn, folder_label, table, timers,
                   scans, ext_moves, accepted, selections, aborted,
                   arg, ret, libc_pads_year>>

----------------------------------------------------------------------------
(* Other programs changing the folder                                       *)

\* Number of changes other programs make to the folder in one run.
MaxExt == 2

\* The names other programs create: the plain and suffixed names of the planner.
ExtNames ==
    {Plain(BaseCanon, Jpg), Suffixed(BaseCanon, 1, Jpg), Suffixed(BaseCanon, 2, Jpg),
     Suffixed(BaseCanon1, 1, Jpg)}

Running(workers) == {k \in 1..Len(workers) : workers[k].pc = "running"}

\* Another program creates a file in folder A while a rename worker runs.
ExtCreate ==
    /\ ~aborted
    /\ ext_moves < MaxExt
    /\ Running(renames) # {}
    /\ \E name \in ExtNames :
          /\ ~Exists(disk, Join("A", name))
          /\ disk' = disk \cup {[path |-> Join("A", name), content |-> "plain"]}
    /\ ext_moves' = ext_moves + 1
    /\ UNCHANGED <<lists, selected_files, preview_results, results_of, rename_completed,
                   rename_btn, preview_btn, folder_label, table, timers, scans, renames,
                   mainq, accepted, selections, aborted,
                   arg, ret, libc_pads_year>>

\* Another program deletes a file while a rename worker runs.
ExtDelete ==
    /\ ~aborted
    /\ ext_moves < MaxExt
    /\ Running(renames) # {}
    /\ \E f \in disk : disk' = disk \ {f}
    /\ ext_moves' = ext_moves + 1
    /\ UNCHANGED <<lists, selected_files, preview_results, results_of, rename_completed,
                   rename_btn, preview_btn, folder_label, table, timers, scans, renames,
                   mainq, accepted, selections, aborted,
                   arg, ret, libc_pads_year>>

----------------------------------------------------------------------------
(* Specification of the rename executor on drawn plans                      *)

NameB == <<"b", ".", "j", "p", "g">>
NameC == <<"c", ".", "j", "p", "g">>

\* The files of folder A the plans are drawn for.
ExecSources == <<Join("A", NameA), Join("A", NameB), Join("A", NameC)>>

\* A Success outcome of process_files for filepath with the given base name.
SuccessOf(filepath, base_name) ==
    ResultRecord(filepath, SubSeq(base_name, 1, 15), SubSeq(base_name, 17, Len(base_name)),
                 "None", <<>>, base_name, SplitExt(BaseName(filepath)))

\* The state when rename_files has built the tasks for n outcomes with the base names
\* bases on a folder holding the n sources and the files named extra, and has
\* created the RenameWorker.
ExecStart(n, bases, extra) ==
    LET sources == SubSeq(ExecSources, 1, n)
        results == [i \in 1..n |-> SuccessOf(sources[i], bases[i])]
        d == {[path |-> sources[i], content |-> "dated"] : i \in 1..n} \cup FolderOf("A", extra)
    IN  /\ disk = d
        /\ lists = << <<>>, sources >>
        /\ selected_files = 2
        /\ preview_results = results
        /\ results_of = 2
        /\ rename_completed = TRUE
        /\ rename_btn = FALSE
        /\ preview_btn = TRUE
        /\ folder_label = "A"
        /\ table = update_preview_table(results)
        /\ timers = 0
        /\ scans = <<>>
        /\ renames = <<NewRenameWorker(BuildTasks(results, d))>>
        /\ mainq = <<>>
        /\ ext_moves = 0
        /\ accepted = 1
        /\ selections = 1
        /\ aborted = FALSE
        /\ libc_pads_year \in BOOLEAN

InitExec ==
    /\ \E n \in 1..Len(ExecSources) :
          \E bases \in [1..n -> PlanBases] :
             \E extra \in SUBSET {Plain(BaseCanon, Jpg), Suffixed(BaseCanon, 1, Jpg)} :
                ExecStart(n, bases, extra)
    /\ arg = NoRet
    /\ ret = NoRet

NextExec ==
    \/ \E k \in 1..Len(renames) : RenameStep(k)
    \/ \E k \in 1..Len(renames) : RenameFinish(k)
    \/ ExtCreate
    \/ ExtDelete

SpecExec == InitExec /\ [][NextExec]_vars

\* The smallest k >= 1 for which base_name_k+extension names no file of task's folder.
SmallestFreeOnDisk(task, d) ==
    CHOOSE k \in 1..(Cardinality(d) + 1) :
        /\ ~Exists(d, Join(DirName(task.filepath), Suffixed(task.base_name, k, task.extension)))
        /\ \A j \in 1..(k - 1) :
              Exists(d, Join(DirName(task.filepath),
                             Suffixed(task.base_name, j, task.extension)))

\* Worker k processes a plan in this step.
Processes(k) == k <= Len(renames') /\ renames'[k].i = renames[k].i + 1

\* C4: the executor never overwrites a file. Whenever a plan is processed and its
\* rename succeeds, the path renamed to named no file when the plan was processed,
\* whatever other programs created or deleted since planning or since the previous
\* plan; every other file stays as it was; and the path is the planned one when that
\* is free, otherwise base_name_k+extension for the smallest k >= 1 that is free.
C4_NeverOverwrites ==
    [][\A k \in 1..Len(renames) :
          Processes(k) =>
             LET task == renames[k].rename_tasks[renames[k].i + 1]
                 out == renames'[k].outcomes[renames'[k].i]
             IN  out.ok =>
                    /\ ~Exists(disk, out.new_path)
                    /\ \A f \in disk : f.path # task.filepath => f \in disk'
                    /\ Exists(disk', out.new_path) /\ ~Exists(disk', task.filepath)
                    /\ out.new_path =
                          IF ~Exists(disk, task.new_path) THEN task.new_path
                          ELSE Join(DirName(task.filepath),
                                    Suffixed(task.base_name, SmallestFreeOnDisk(task, disk),
                                             task.extension))]_vars

\* Another program has put a file at the planned target of a plan, the plan was then
\* processed, and its file went to a suffixed name while the other file stayed.
C4_Witness ==
    \E k \in 1..Len(renames) : \E j \in 1..renames[k].i :
        /\ renames[k].outcomes[j].ok
        /\ renames[k].outcomes[j].new_path # renames[k].rename_tasks[j].new_path
        /\ [path |-> renames[k].rename_tasks[j].new_path, content |-> "plain"] \in disk
        /\ [path |-> renames[k].outcomes[j].new_path, content |-> "dated"] \in disk
        /\ ext_moves = 1

CountOk(outcomes, flag) == Cardinality({j \in 1..Len(outcomes) : outcomes[j].ok = flag})

\* C5: a failed rename is counted as exactly one failure and the batch goes on: after
\* every plan processed so far there is one outcome, success_count and failure_count
\* count the renames that succeeded and that failed, and when the worker reports
\* its counts every plan has been processed, so that the counts add up to the number
\* of plans.
C5_FailureDoesNotStopBatch ==
    \A k \in 1..Len(renames) :
        LET w == renames[k]
        IN  /\ Len(w.outcomes) = w.i
            /\ w.success_count = CountOk(w.outcomes, TRUE)
            /\ w.error_count = CountOk(w.outcomes, FALSE)
            /\ w.pc = "finished" =>
                  /\ w.i = Len(w.rename_tasks)
                  /\ w.success_count + w.error_count = Len(w.rename_tasks)

\* Three plans, the source of the second deleted before it was processed: the worker
\* reports success_count 2 and failure_count 1, and the third file was renamed.
C5_Witness ==
    \E k \in 1..Len(renames) :
        LET w == renames[k]
        IN  /\ w.pc = "finished"
            /\ Len(w.rename_tasks) = 3
            /\ <<w.outcomes[1].ok, w.outcomes[2].ok, w.outcomes[3].ok>> = <<TRUE, FALSE, TRUE>>
            /\ w.success_count = 2 /\ w.error_count = 1
            /\ ~Exists(disk, w.rename_tasks[2].filepath)
            /\ ~Exists(disk, w.rename_tasks[2].new_path)
            /\ Exists(disk, w.outcomes[3].new_path)

----------------------------------------------------------------------------
(* Scan worker: ExifWorker                                                  *)

\* HEIC_SUPPORT when pillow_heif cannot be imported.
HEIC_SUPPORT == FALSE

\* ExifWorker(file_paths): file_paths refers to the list object handed over.
NewExifWorker(file_paths) ==
    [file_paths |-> file_paths, pc |-> "created", total |-> 0, i |-> 0, results |-> <<>>,
     emitted |-> <<>>]

\* Mutant: the record of a file whose processing raised is dropped.
AfterFileDropRaised(w, result) ==
    [w EXCEPT !.i = @ + 1,
              !.results = IF result.error = "PROCESS_ERROR" THEN @ ELSE Append(@, result)]

\* The worker after one pass of the for loop of process_files.
AfterFile(w, result) ==
    [w EXCEPT !.i = @ + 1, !.results = Append(@, result),
              !.emitted = Append(@, ProgressSignal(w.i + 1, w.total))]

\* The thread starts process_files: results = [], total_files = len(self.file_paths).
ScanBegin(k) ==
    /\ ~aborted
    /\ scans[k].pc = "created"
    /\ scans' = [scans EXCEPT ![k].pc = "running",
                              ![k].total = Len(lists[scans[k].file_paths])]
    /\ UNCHANGED <<disk, lists, selected_files, preview_results, results_of,
                   rename_completed, rename_btn, preview_btn, folder_label, table, timers,
                   renames, mainq, ext_moves, accepted, selections, aborted, arg, ret, libc_pads_year>>

\* One pass of the for loop: enumerate() yields the next element of the list as it is
\* now, the file is processed, the record appended.
ScanStep(k) ==
    /\ ~aborted
    /\ scans[k].pc = "running"
    /\ scans[k].i < Len(lists[scans[k].file_paths])
    /\ LET filepath == lists[scans[k].file_paths][scans[k].i + 1]
       IN  \E raised \in BOOLEAN :
              scans' = [scans EXCEPT ![k] =
                           AfterFile(@, ProcessFile(filepath, ContentAt(disk, filepath),
                                                    HEIC_SUPPORT, raised))]
    /\ UNCHANGED <<disk, lists, selected_files, preview_results, results_of,
                   rename_completed, rename_btn, preview_btn, folder_label, table, timers,
                   renames, mainq, ext_moves, accepted, selections, aborted, arg, ret, libc_pads_year>>

\* The list is exhausted: self.finished.emit(results).
ScanFinish(k) ==
    /\ ~aborted
    /\ scans[k].pc = "running"
    /\ scans[k].i >= Len(lists[scans[k].file_paths])
    /\ scans' = [scans EXCEPT ![k].pc = "finished",
                              ![k].emitted = Append(@, FinishedSignal)]
    /\ mainq' = Append(mainq, [signal |-> "preview_finished", worker |-> k])
    /\ UNCHANGED <<disk, lists, selected_files, preview_results, results_of,
                   rename_completed, rename_btn, preview_btn, folder_label, table, timers,
                   renames, ext_moves, accepted, selections, aborted, arg, ret, libc_pads_year>>

----------------------------------------------------------------------------
(* Main window: PhotoRenamerApp                                             *)

\* Number of folder selections, scan workers and rename workers in one run.
MaxSelect == 2
MaxScans == 2
MaxRenames == 2

\* The largest selection select_folder previews by itself.
AutoPreviewLimit == 500

\* The thread of the newest worker runs until the main thread has handled the
\* worker's finished signal (finished is connected to thread.quit).
ThreadAlive(workers) == workers # <<>> /\ workers[Len(workers)].pc # "done"

\* Assigning a new QThread to self.exif_thread or self.rename_thread drops the last
\* reference to the previous one; Qt aborts the process when a QThread that still
\* runs is destroyed. Both outcomes are kept.
AbortChoices == BOOLEAN

SuccessCount(results) == Cardinality({i \in 1..Len(results) : results[i].error = "None"})

\* preview_names, on every variable but timers and the ones it never writes.
preview_names(abort) ==
    IF lists[selected_files] = <<>>
    THEN UNCHANGED <<preview_btn, scans, aborted>>
    ELSE IF ThreadAlive(scans) /\ abort
    THEN aborted' = TRUE /\ UNCHANGED <<preview_btn, scans>>
    ELSE /\ preview_btn' = FALSE
         /\ scans' = Append(scans, NewExifWorker(selected_files))
         /\ UNCHANGED aborted

\* A click on the preview button, which is connected to preview_names.
PreviewClick ==
    /\ ~aborted
    /\ preview_btn
    /\ Len(scans) < MaxScans
    /\ \E abort \in AbortChoices : preview_names(abort)
    /\ UNCHANGED <<disk, lists, selected_files, preview_results, results_of,
                   rename_completed, rename_btn, folder_label, table, timers, renames,
                   mainq, ext_moves, accepted, selections, arg, ret, libc_pads_year>>

\* QTimer.singleShot(500, self.preview_names) expires.
TimerFire ==
    /\ ~aborted
    /\ timers > 0
    /\ Len(scans) < MaxScans
    /\ timers' = timers - 1
    /\ \E abort \in AbortChoices : preview_names(abort)
    /\ UNCHANGED <<disk, lists, selected_files, preview_results, results_of,
                   rename_completed, rename_btn, folder_label, table, renames,
                   mainq, ext_moves, accepted, selections, arg, ret, libc_pads_year>>

\* reset_all, run by the reset button: the lists are cleared in place.
reset_all ==
    /\ ~aborted
    /\ lists' = [lists EXCEPT ![selected_files] = <<>>]
    /\ preview_results' = <<>>
    /\ results_of' = 0
    /\ table' = <<>>
    /\ rename_btn' = FALSE
    /\ preview_btn' = TRUE
    /\ rename_completed' = FALSE
    /\ folder_label' = NoFolder
    /\ UNCHANGED <<disk, selected_files, timers, scans, renames, mainq, ext_moves,
                   accepted, selections, aborted, arg, ret, libc_pads_year>>

\* select_folder with the folder chosen in the dialog ("" when it is cancelled):
\* reset_all, then a new sorted list of the images of the folder, and the timer of
\* the automatic preview.
select_folder(folder_path) ==
    /\ ~aborted
    /\ selections < MaxSelect
    /\ IF folder_path = ""
       THEN UNCHANGED vars
       ELSE LET files == ListImages(disk, folder_path)
            IN  /\ lists' = Append([lists EXCEPT ![selected_files] = <<>>], files)
                /\ selected_files' = Len(lists) + 1
                /\ preview_results' = <<>>
                /\ results_of' = 0
                /\ table' = <<>>
                /\ rename_btn' = FALSE
                /\ preview_btn' = TRUE
                /\ rename_completed' = FALSE
                /\ folder_label' = folder_path
                /\ timers' = IF 0 < Len(files) /\ Len(files) <= AutoPreviewLimit
                             THEN timers + 1 ELSE timers
                /\ accepted' = 0
                /\ selections' = selections + 1
                /\ UNCHANGED <<disk, scans, renames, mainq, ext_moves, aborted, arg, ret, libc_pads_year>>

\* The main thread handles the finished signal of scan worker k.
on_preview_finished ==
    /\ ~aborted
    /\ mainq # <<>>
    /\ Head(mainq).signal = "preview_finished"
    /\ LET k == Head(mainq).worker
           results == scans[k].results
       IN  /\ preview_results' = results
           /\ results_of' = scans[k].file_paths
           /\ table' = update_preview_table(results)
           /\ preview_btn' = TRUE
           /\ rename_btn' = IF ~rename_completed THEN SuccessCount(results) > 0
                            ELSE rename_btn
           /\ scans' = [scans EXCEPT ![k].pc = "done"]
    /\ mainq' = Tail(mainq)
    /\ UNCHANGED <<disk, lists, selected_files, rename_completed, folder_label, timers,
                   renames, ext_moves, accepted, selections, aborted, arg, ret, libc_pads_year>>

\* rename_files with the answer to the confirmation, on every variable but ret.
rename_files(reply, abort) ==
    /\ ~aborted
    /\ Len(renames) < MaxRenames
    /\ LET rename_tasks == BuildTasks(preview_results, disk)
       IN  IF \/ rename_completed
              \/ preview_results = <<>>
              \/ rename_tasks = <<>>
              \/ reply # "Yes"
           THEN UNCHANGED <<rename_completed, rename_btn, renames, accepted, aborted>>
           ELSE IF ThreadAlive(renames) /\ abort
           THEN /\ rename_completed' = TRUE
                /\ aborted' = TRUE
                /\ UNCHANGED <<rename_btn, renames, accepted>>
           ELSE /\ rename_completed' = TRUE
                /\ rename_btn' = FALSE
                /\ renames' = Append(renames, NewRenameWorker(rename_tasks))
                /\ accepted' = accepted + 1
                /\ UNCHANGED aborted
    /\ UNCHANGED <<disk, lists, selected_files, preview_results, results_of, preview_btn,
                   folder_label, table, timers, scans, mainq, ext_moves, selections,
                   arg, libc_pads_year>>

\* A click on the rename button, which is connected to rename_files.
RenameClick(reply, abort) ==
    /\ rename_btn
    /\ rename_files(reply, abort)
    /\ UNCHANGED ret

\* The main thread handles the finished signal of rename worker k.
on_rename_finished ==
    /\ ~aborted
    /\ mainq # <<>>
    /\ Head(mainq).signal = "rename_finished"
    /\ rename_btn' = FALSE
    /\ renames' = [renames EXCEPT ![Head(mainq).worker].pc = "done"]
    /\ mainq' = Tail(mainq)
    /\ UNCHANGED <<disk, lists, selected_files, preview_results, results_of,
                   rename_completed, preview_btn, folder_label, table, timers, scans,
                   ext_moves, accepted, selections, aborted, arg, ret, libc_pads_year>>

----------------------------------------------------------------------------
(* Specification of the application                                         *)

NameD == <<"d", ".", "j", "p", "g">>
NameTxt == <<"n", ".", "t", "x", "t">>

\* Folder A holds two images and a text file, folder B one image.
DiskInit ==
    {[path |-> Join("A", NameB), content |-> "plain"],
     [path |-> Join("A", NameA), content |-> "dated"],
     [path |-> Join("A", NameTxt), content |-> "plain"],
     [path |-> Join("B", NameD), content |-> "dated"]}

Init ==
    /\ AppInit(DiskInit)
    /\ arg = NoRet
    /\ ret = NoRet
    /\ libc_pads_year \in BOOLEAN

Next ==
    \/ \E folder_path \in {"A", "B", ""} : select_folder(folder_path)
    \/ reset_all
    \/ PreviewClick
    \/ TimerFire
    \/ \E reply \in {"Yes", "No"} : \E abort \in AbortChoices : RenameClick(reply, abort)
    \/ on_preview_finished
    \/ on_rename_finished
    \/ \E k \in 1..Len(scans) : ScanBegin(k)
    \/ \E k \in 1..Len(scans) : ScanStep(k)
    \/ \E k \in 1..Len(scans) : ScanFinish(k)
    \/ \E k \in 1..Len(renames) : RenameStep(k)
    \/ \E k \in 1..Len(renames) : RenameFinish(k)

Spec == Init /\ [][Next]_vars

\* C1: a batch is renamed at most once: between two folder selections at most one
\* rename request is accepted, whatever previews, resets and late scan results
\* occur in between.
C1_RenamedAtMostOnce == accepted <= 1

\* A scan worker on the list object of the current selection has been created and the
\* main thread has not yet handled its results.
Scanning == \E k \in 1..Len(scans) : scans[k].file_paths = selected_files /\ scans[k].pc # "done"

\* A rename worker has been started and the main thread has not yet handled its counts.
Renaming == \E k \in 1..Len(renames) : renames[k].pc # "done"

\* The stored results are those of a completed scan of the current selection, and
\* neither a scan of it nor a rename is in progress.
ScanComplete ==
    /\ preview_results # <<>>
    /\ results_of = selected_files
    /\ ~Scanning
    /\ ~Renaming

\* C2: a rename worker is started only from ScanComplete: not before a scan of the
\* current selection has completed, not while a scan or re-scan of it is in progress,
\* not while a rename is in progress.
C2_RenameOnlyFromScanComplete == [][Len(renames') > Len(renames) => ScanComplete]_vars

\* C9: outcomes computed for an earlier selection are never the stored outcomes:
\* whenever outcomes are stored they were computed from the list built by the
\* latest folder selection.
C9_NoStaleOutcomes == preview_results # <<>> => results_of = selected_files

\* C12: at most one background worker processes files at any moment: no two scan
\* workers, and no scan worker together with a rename worker, are in their loops at
\* the same time.
C12_OneWorkerAtATime == Cardinality(Running(scans)) + Cardinality(Running(renames)) <= 1

\* C13: a scan that started on a list of N files runs over the full list: when it
\* emits finished it has processed N files and reports N outcomes, whatever resets
\* and folder selections happened meanwhile.
C13_ScanRunsToCompletion ==
    \A k \in 1..Len(scans) :
        scans[k].pc \in {"finished", "done"} =>
            scans[k].i = scans[k].total /\ Len(scans[k].results) = scans[k].total

\* The signals a worker has emitted are those of a phase over n items: the j-th is
\* progress(j, n), one per item processed so far, and finished comes once, after
\* progress(n, n).
EmitsInOrder(w, n) ==
    /\ Len(w.emitted) <= n + 1
    /\ \A j \in 1..Len(w.emitted) :
          w.emitted[j] = IF j <= n THEN ProgressSignal(j, n) ELSE FinishedSignal
    /\ w.pc \in {"finished", "done"} <=> Len(w.emitted) = n + 1
    /\ w.pc = "running" => Len(w.emitted) = w.i

\* C15: a scan started on N files and a rename of N tasks emit progress(1, N), ...,
\* progress(N, N), one after each item whatever its outcome, and then finished once.
C15_ProgressPerItem ==
    /\ \A k \in 1..Len(scans) :
          scans[k].pc # "created" => EmitsInOrder(scans[k], scans[k].total)
    /\ \A k \in 1..Len(renames) :
          EmitsInOrder(renames[k], Len(renames[k].rename_tasks))

\* Every image file of folder_path on d that the extraction dates bears the name planned from its
\* outcome: base_name followed by the extension.
BearsPlannedName(d, folder_path) ==
    \A f \in {g \in d : DirName(g.path) = folder_path} :
        LET r == ProcessFile(f.path, ContentAt(d, f.path), HEIC_SUPPORT, FALSE)
        IN  (Lower(SplitExt(BaseName(f.path))) \in image_extensions /\ r.error = "None")
                => BaseName(f.path) = r.base_name \o r.extension

\* C22: in a folder whose files already bear their planned names, a rename worker
\* that processes the task of a file named base_name + extension leaves the folder as
\* it is: the file is not moved to a suffixed name because it is itself on disk.
C22_RenameIsIdempotent ==
    [][\A k \in 1..Len(renames) :
          (/\ k <= Len(renames')
           /\ renames'[k].i > renames[k].i
           /\ LET task == renames[k].rename_tasks[renames[k].i + 1]
              IN  /\ BearsPlannedName(disk, DirName(task.filepath))
                  /\ Exists(disk, task.filepath)
                  /\ BaseName(task.filepath) = task.base_name \o task.extension)
             => disk' = disk]_vars

----------------------------------------------------------------------------
(* Specification of scanning one selection: scans, re-scans and resets      *)

\* The folders A the scans are checked on: up to three images, each absent or with
\* one of the contents drawn for it, next to a text file.
ScanContents ==
    {c \in [{NameA, NameB, NameC} -> {"absent", "dated", "plain"}] :
        c[NameB] # "dated" /\ c[NameC] # "plain"}

ScanDisks ==
    {{[path |-> Join("A", n), content |-> c[n]] : n \in {m \in DOMAIN c : c[m] # "absent"}}
     \cup {[path |-> Join("A", NameTxt), content |-> "plain"]} : c \in ScanContents}

\* The state select_folder leaves when folder A of disk d is the first selection.
SelectedA(d) ==
    LET files == ListImages(d, "A")
    IN  /\ disk = d
        /\ lists = << <<>>, files >>
        /\ timers = IF 0 < Len(files) /\ Len(files) <= AutoPreviewLimit THEN 1 ELSE 0
        /\ selected_files = 2
        /\ preview_results = <<>>
        /\ results_of = 0
        /\ rename_completed = FALSE
        /\ rename_btn = FALSE
        /\ preview_btn = TRUE
        /\ folder_label = "A"
        /\ table = <<>>
        /\ scans = <<>>
        /\ renames = <<>>
        /\ mainq = <<>>
        /\ ext_moves = 0
        /\ accepted = 0
        /\ selections = 1
        /\ aborted = FALSE

InitScan ==
    /\ \E d \in ScanDisks : SelectedA(d)
    /\ libc_pads_year \in BOOLEAN
    /\ arg = NoRet
    /\ ret = NoRet

NextScan ==
    \/ reset_all
    \/ PreviewClick
    \/ TimerFire
    \/ on_preview_finished
    \/ \E k \in 1..Len(scans) : ScanBegin(k)
    \/ \E k \in 1..Len(scans) : ScanStep(k)
    \/ \E k \in 1..Len(scans) : ScanFinish(k)

SpecScan == InitScan /\ [][NextScan]_vars

\* The list object of worker w was not modified since w started.
Unmodified(w) == w.pc # "created" /\ Len(lists[w.file_paths]) = w.total

\* C6: a scan over a list of N paths that is not modified while the scan runs
\* delivers exactly N records, the i-th being the record of the i-th path of the
\* list, which is in sorted order, whatever the outcomes of the files and whether
\* or not processing a file raised; while it runs it has appended one record for each
\* path passed.
C6_OneRecordPerPath ==
    \A k \in 1..Len(scans) :
        LET w == scans[k]
            paths == lists[w.file_paths]
        IN  Unmodified(w) =>
               /\ Len(w.results) = w.i
               /\ \A j \in 1..w.i : w.results[j].filepath = paths[j]
               /\ \A j \in 1..w.i : \A m \in 1..w.i :
                     j < m => StrLess(BaseName(paths[j]), BaseName(paths[m]))
               /\ w.pc \in {"finished", "done"} => w.i = w.total

\* A scan of three files delivered a Success, a failure and the record of a file whose
\* processing raised, in the order of the list.
C6_Witness ==
    \E k \in 1..Len(scans) :
        LET w == scans[k]
        IN  /\ w.pc = "done"
            /\ Unmodified(w)
            /\ w.total = 3
            /\ <<w.results[1].error, w.results[2].error, w.results[3].error>>
                  = <<"None", "NO_EXIF_TIME", "PROCESS_ERROR">>
            /\ preview_results = w.results

----------------------------------------------------------------------------
(* Specification of rename requests: rename_files called at any moment      *)

\* The folders A the requests are checked on: a.jpg dated or plain, with or without a
\* plain b.jpg.
RequestDisks ==
    {{[path |-> Join("A", NameA), content |-> c]} \cup extra :
        c \in {"dated", "plain"},
        extra \in {{}, {[path |-> Join("A", NameB), content |-> "plain"]}}}

InitRequest ==
    /\ \E d \in RequestDisks : SelectedA(d)
    /\ libc_pads_year \in BOOLEAN
    /\ arg = NoRet
    /\ ret = NoRet

\* rename_files is called, whether or not the rename button is enabled; ret records
\* the call: the answer, the number of Success outcomes stored at the call, whether
\* a worker was started, and a bit that changes with every call.
RenameRequest(reply, abort) ==
    /\ rename_files(reply, abort)
    /\ ret' = [op |-> "rename_files", reply |-> reply,
               successes |-> SuccessCount(preview_results),
               started |-> Len(renames') > Len(renames),
               tick |-> IF ret.op = "none" THEN 0 ELSE 1 - ret.tick]

NextRequest ==
    \/ \E reply \in {"Yes", "No"} : \E abort \in AbortChoices : RenameRequest(reply, abort)
    \/ PreviewClick
    \/ TimerFire
    \/ on_preview_finished
    \/ on_rename_finished
    \/ \E k \in 1..Len(scans) : ScanBegin(k)
    \/ \E k \in 1..Len(scans) : ScanStep(k)
    \/ \E k \in 1..Len(scans) : ScanFinish(k)
    \/ \E k \in 1..Len(renames) : RenameStep(k)
    \/ \E k \in 1..Len(renames) : RenameFinish(k)

SpecRequest == InitRequest /\ [][NextRequest]_vars

\* C14: a rename worker is started only when the stored outcomes hold a Success; a
\* rename request made when they hold none (all failures, or no outcomes) starts no
\* worker, renames nothing and leaves rename_completed and the rename button as they
\* were, so that the results of a later scan can enable renaming.
C14_RenameNeedsSuccess ==
    [][/\ Len(renames') > Len(renames) => SuccessCount(preview_results) > 0
       /\ ret' # ret /\ SuccessCount(preview_results) = 0
             => UNCHANGED <<renames, disk, rename_completed, rename_btn, accepted>>]_vars

\* A request was refused on outcomes that were all failures, no rename was ever
\* started, and a later scan of the selection has enabled the rename button.
C14_Witness ==
    /\ ret.op = "rename_files"
    /\ ret.reply = "Yes"
    /\ ret.successes = 0
    /\ ~ret.started
    /\ Len(scans) = 2
    /\ scans[1].pc = "done" /\ scans[1].results # <<>> /\ SuccessCount(scans[1].results) = 0
    /\ scans[2].pc = "done" /\ preview_results = scans[2].results
    /\ SuccessCount(preview_results) > 0
    /\ renames = <<>>
    /\ ~rename_completed
    /\ rename_btn

\* The names shown for failed files begin with NOHEIC_, ERROR_ or NOEXIF_.
StartsWith(name, prefix) == Len(name) >= Len(prefix) /\ SubSeq(name, 1, Len(prefix)) = prefix

IsPlaceholderName(name) == \E p \in {NoHeicPrefix, ErrorPrefix, NoExifPrefix} : StartsWith(name, p)

\* C25: the rename phase leaves the files whose outcome is a Failure alone. The tasks
\* a rename request builds name no file with a Failure outcome and no placeholder
\* name, and a worker that processes a task moves the file of that task only, to a
\* name that is no placeholder: every other file of the folder stays at its path.
C25_FailuresUntouched ==
    [][/\ Len(renames') > Len(renames) =>
             LET tasks == renames'[Len(renames')].rename_tasks
             IN  /\ Len(tasks) = SuccessCount(preview_results)
                 /\ \A j \in 1..Len(tasks) :
                       /\ ~IsPlaceholderName(BaseName(tasks[j].new_path))
                       /\ \A i \in 1..Len(preview_results) :
                             preview_results[i].error # "None"
                                => tasks[j].filepath # preview_results[i].filepath
       /\ \A k \in 1..Len(renames) :
             Processes(k) =>
                LET task == renames[k].rename_tasks[renames[k].i + 1]
                IN  /\ \A f \in disk : f.path # task.filepath => f \in disk'
                    /\ \A f \in disk' \ disk : ~IsPlaceholderName(BaseName(f.path))
       /\ (\A k \in 1..Len(renames) : ~Processes(k)) => disk' = disk]_vars

\* a.jpg was dated and renamed; b.jpg, shown as NOEXIF_b.jpg, is where it was.
C25_Witness ==
    /\ Len(renames) = 1
    /\ renames[1].pc = "done"
    /\ renames[1].success_count = 1
    /\ \E i \in 1..Len(preview_results) :
          /\ preview_results[i].filepath = Join("A", NameB)
          /\ preview_results[i].error = "NO_EXIF_TIME"
          /\ preview_results[i].new_name = NoExifPrefix \o NameB
    /\ Exists(disk, Join("A", NameB))
    /\ ~Exists(disk, Join("A", NameA))
    /\ ~Exists(disk, Join("A", NoExifPrefix \o NameB))
    /\ renames[1].rename_tasks[1].filepath = Join("A", NameA)
    /\ Exists(disk, renames[1].outcomes[1].new_path)

----------------------------------------------------------------------------
(* Specification of the normalizer and of the stages' choice of a value     *)

NormYears == {<<"2", "0", "2", "1">>, <<"2", "0", "2", "0">>, <<"0", "9", "9", "9">>}
NormMonths == {<<"0", "2">>, <<"0", "5">>, <<"1", "3">>}
NormDays == {<<"0", "1">>, <<"2", "9">>, <<"3", "1">>}
DateSeps == {":", "-", "/"}

\* Nothing, HH:MM:SS, an hour 24, fractional seconds, ISO 8601 without and with Z,
\* and HH:MM.
NormTails ==
    { <<>>,
      <<" ", "1", "0", ":", "0", "0", ":", "0", "0">>,
      <<" ", "2", "3", ":", "5", "9", ":", "5", "9">>,
      <<" ", "2", "4", ":", "0", "0", ":", "0", "0">>,
      <<" ", "1", "0", ":", "0", "0", ":", "0", "0", ".", "5">>,
      <<"T", "1", "0", ":", "0", "0", ":", "0", "0">>,
      <<"T", "1", "0", ":", "0", "0", ":", "0", "0", "Z">>,
      <<" ", "1", "0", ":", "0", "0">> }

\* Text around a value: none, or a blank on both sides.
NormPads == {<<>>, <<" ">>}

NormTexts ==
    {p \o y \o <<sep>> \o m \o <<sep>> \o d \o t \o p :
        p \in NormPads, y \in NormYears, sep \in DateSeps, m \in NormMonths,
        d \in NormDays, t \in NormTails}
    \cup {<<>>, Blank, <<" ", " ">>, Sentinel, <<" ">> \o Sentinel, Garbage}

NoTags == <<>>
NoBytes == [readable |-> FALSE, bytes |-> <<>>]

\* Dictionaries of a few tags whose time values are well-formed, the sentinel,
\* empty or blank, in every enumeration order.
SentinelPairs ==
    {"DateTimeOriginal", "DateTime", "CreateDate"}
        \X {V20210501, V20210430, Sentinel, <<>>, Blank}

\* Largest number of tags in such a dictionary.
MaxSentinelTags == 2

SentinelDicts ==
    UNION {{e \in [1..n -> SentinelPairs] : \A i, j \in 1..n : i < j => e[i][1] # e[j][1]} :
              n \in 0..MaxSentinelTags}

\* The bytes of a text.
BytesOf(v) == [i \in 1..Len(v) |-> AsciiCodes[Ord(v[i])]]

\* A JPEG file whose Exif block holds DateTimeOriginal = v[1] and DateTime = v[2],
\* big-endian, the values stored behind the directory.
JpegOfValues(v) ==
    LET b1 == IF v[1] = <<>> THEN <<0, 0, 0, 0, 0>> ELSE BytesOf(v[1])
        b2 == IF v[2] = <<>> THEN <<0, 0, 0, 0, 0>> ELSE BytesOf(v[2])
        tiff == <<77, 77, 0, 42, 0, 0, 0, 8, 0, 2,
                  144, 3, 0, 2, 0, 0, 0, Len(b1), 0, 0, 0, 38,
                  1, 50, 0, 2, 0, 0, 0, Len(b2), 0, 0, 0, 38 + Len(b1),
                  0, 0, 0, 0>> \o b1 \o b2
    IN  <<255, 216, 255, 225, 0, 8 + Len(tiff)>> \o ExifSignature \o tiff

SentinelValues == {V20210501, V20210430, Sentinel, <<>>}

NormArgs ==
    [kind : {"text"}, text : NormTexts, exifdata : {NoTags}, raw : {NoBytes},
     values : {<<>>}]
    \cup [kind : {"tags"}, text : {<<>>}, exifdata : SentinelDicts, raw : {NoBytes},
          values : {<<>>}]
    \cup {[kind |-> "bytes", text |-> <<>>, exifdata |-> NoTags,
           raw |-> [readable |-> TRUE, bytes |-> JpegOfValues(v)], values |-> v] :
              v \in SentinelValues \X SentinelValues}

InitNorm ==
    /\ arg \in NormArgs
    /\ ret = NoRet
    /\ AppInit({})
    /\ libc_pads_year \in BOOLEAN

CallFormat ==
    /\ ret.op = "none"
    /\ arg.kind = "text"
    /\ ret' = [op |-> "format", out |-> format_datetime_string(arg.text)]
    /\ UNCHANGED <<arg, appVars>>

\* parse_exif_with_pil on the drawn dictionary.
CallPil ==
    /\ arg.kind = "tags"
    /\ CallParse

\* parse_raw_exif on the drawn file.
CallRaw ==
    /\ ret.op = "none"
    /\ arg.kind = "bytes"
    /\ ret' = [op |-> "raw", result |-> parse_raw_exif(arg.raw)]
    /\ UNCHANGED <<arg, appVars>>

NextNorm ==
    \/ CallFormat
    \/ CallPil
    \/ CallRaw

SpecNorm == InitNorm /\ [][NextNorm]_vars

\* The characters of s with every digit replaced by "9".
ShapeOf(s) == [i \in 1..Len(s) |-> IF IsDigit(s[i]) THEN "9" ELSE s[i]]

\* YYYY?MM?DD?HH:MM... names a real date and time: the fields are read at their
\* columns, the seconds only where the text has them.
RealDateTime(s) ==
    LET year == IntOf(SubSeq(s, 1, 4))
        month == IntOf(SubSeq(s, 6, 7))
        day == IntOf(SubSeq(s, 9, 10))
    IN  /\ year >= 1
        /\ month \in 1..12
        /\ day >= 1
        /\ day <= (IF month = 2
                   THEN (IF (year % 4 = 0 /\ year % 100 # 0) \/ year % 400 = 0 THEN 29 ELSE 28)
                   ELSE IF month \in {4, 6, 9, 11} THEN 30 ELSE 31)
        /\ IntOf(SubSeq(s, 12, 13)) <= 23
        /\ IntOf(SubSeq(s, 15, 16)) <= 59
        /\ Len(s) >= 19 => IntOf(SubSeq(s, 18, 19)) <= 59

ExifShape == <<"9", "9", "9", "9", ":", "9", "9", ":", "9", "9", " ", "9", "9", ":", "9", "9", ":", "9", "9">>

DigitsOf(s) == SelectSeq(s, IsDigit)

\* A canonical timestamp written back as YYYY:MM:DD HH:MM:SS.
Reformat(t) ==
    IF Len(t) # 15 THEN <<>>
    ELSE SubSeq(t, 1, 4) \o <<":">> \o SubSeq(t, 5, 6) \o <<":">> \o SubSeq(t, 7, 8) \o <<" ">>
         \o SubSeq(t, 10, 11) \o <<":">> \o SubSeq(t, 12, 13) \o <<":">> \o SubSeq(t, 14, 15)

\* C17: for every real date and time written YYYY:MM:DD HH:MM:SS the normalizer
\* returns 15 characters YYYYMMDD_HHMMSS with the digits of the input in their order,
\* and writing them back in the input's pattern gives the input.
C17_CanonicalRoundTrip ==
    (ret.op = "format" /\ ShapeOf(arg.text) = ExifShape /\ RealDateTime(arg.text)) =>
        /\ Len(ret.out) = 15
        /\ ShapeOf(ret.out) = <<"9", "9", "9", "9", "9", "9", "9", "9", "_", "9", "9", "9", "9", "9", "9">>
        /\ DigitsOf(ret.out) = DigitsOf(arg.text)
        /\ Reformat(ret.out) = arg.text

\* The listed patterns, as shapes: the three date separators with HH:MM:SS, the same
\* with fractional seconds, ISO 8601 without and with Z, the three with HH:MM.
ListedShapes ==
    { <<"9", "9", "9", "9", ":", "9", "9", ":", "9", "9", " ", "9", "9", ":", "9", "9", ":", "9", "9">>,
      <<"9", "9", "9", "9", "-", "9", "9", "-", "9", "9", " ", "9", "9", ":", "9", "9", ":", "9", "9">>,
      <<"9", "9", "9", "9", "/", "9", "9", "/", "9", "9", " ", "9", "9", ":", "9", "9", ":", "9", "9">>,
      <<"9", "9", "9", "9", ":", "9", "9", ":", "9", "9", " ", "9", "9", ":", "9", "9", ":", "9", "9", ".", "9">>,
      <<"9", "9", "9", "9", "-", "9", "9", "-", "9", "9", " ", "9", "9", ":", "9", "9", ":", "9", "9", ".", "9">>,
      <<"9", "9", "9", "9", "/", "9", "9", "/", "9", "9", " ", "9", "9", ":", "9", "9", ":", "9", "9", ".", "9">>,
      <<"9", "9", "9", "9", "-", "9", "9", "-", "9", "9", "T", "9", "9", ":", "9", "9", ":", "9", "9">>,
      <<"9", "9", "9", "9", "-", "9", "9", "-", "9", "9", "T", "9", "9", ":", "9", "9", ":", "9", "9", "Z">>,
      <<"9", "9", "9", "9", ":", "9", "9", ":", "9", "9", " ", "9", "9", ":", "9", "9">>,
      <<"9", "9", "9", "9", "-", "9", "9", "-", "9", "9", " ", "9", "9", ":", "9", "9">>,
      <<"9", "9", "9", "9", "/", "9", "9", "/", "9", "9", " ", "9", "9", ":", "9", "9">> }

\* C18: a real date and time written in one of the listed patterns is normalized to a
\* canonical timestamp, with seconds 00 when the pattern has none; a text in none of
\* the patterns gives the unknown time.
C18_ListedPatternsAccepted ==
    ret.op = "format" =>
        IF ShapeOf(Strip(arg.text)) \in ListedShapes
        THEN RealDateTime(Strip(arg.text)) =>
                /\ ret.out # UnknownTime
                /\ Len(Strip(arg.text)) = 16 =>
                      SubSeq(ret.out, Len(ret.out) - 1, Len(ret.out)) = <<"0", "0">>
        ELSE ret.out = UnknownTime

\* A tag value that is empty or the sentinel once trimmed.
NoValue(v) == Strip(v) = <<>> \/ Strip(v) = Sentinel

KeepsValue(q) == ~NoValue(q[2])

\* C19: the normalizer gives the unknown time for the sentinel 0000:00:00 00:00:00,
\* for the empty text and for a text that is blank; and no stage takes such a value
\* as the timestamp: the tag search answers as if the tags carrying them were absent,
\* and the binary scan answers with the normalization of another value of the file,
\* or with the unknown time when there is none.
C19_SentinelNeverSelected ==
    /\ ret.op = "format" /\ NoValue(arg.text) => ret.out = UnknownTime
    /\ ret.op = "parse" =>
          ret.result = parse_exif_with_pil(SelectSeq(arg.exifdata, KeepsValue))
    /\ ret.op = "raw" =>
          LET kept == {i \in 1..2 : ~NoValue(arg.values[i])}
          IN  IF kept = {} THEN ret.result[1] = UnknownTime
              ELSE \E i \in kept : ret.result[1] = format_datetime_string(arg.values[i])

\* The sentinel in DateTimeOriginal, enumerated first, and a well-formed DateTime: the
\* timestamp is that of DateTime.
C19_Witness ==
    /\ ret.op = "parse"
    /\ arg.exifdata = << <<"DateTimeOriginal", Sentinel>>, <<"DateTime", V20210501>> >>
    /\ ret.result[1] = <<"2", "0", "2", "1", "0", "5", "0", "1", "_",
                         "1", "0", "0", "0", "0", "0">>

\* C21: when several entries of the directory carry a timestamp tag with a value that
\* is not the sentinel and normalizes, the timestamp of the binary scan is that of the
\* first of them in stored order.
C21_FirstEntryWins ==
    ret.op = "raw" =>
        LET kept == {i \in 1..2 : /\ ~NoValue(arg.values[i])
                                  /\ format_datetime_string(arg.values[i]) # UnknownTime}
        IN  kept # {} =>
               ret.result[1]
                  = format_datetime_string(arg.values[CHOOSE i \in kept : \A j \in kept : i <= j])

----------------------------------------------------------------------------
(* Specification of the two planning passes over drawn outcome lists         *)

\* The NO_EXIF_TIME outcome of process_files for filepath.
FailureOf(filepath) ==
    ResultRecord(filepath, NoTimeInfo, NoCameraInfo, "NO_EXIF_TIME",
                 NoExifPrefix \o BaseName(filepath), <<>>, <<>>)

\* The outcome of filepath for a drawn choice: a base name, or "fail".
OutcomeOf(filepath, choice) ==
    IF choice = <<"fail">> THEN FailureOf(filepath) ELSE SuccessOf(filepath, choice)

\* The names other files of the folder may bear.
PassExtras == {Plain(BaseCanon, Jpg)} \cup {Suffixed(BaseCanon, k, Jpg) : k \in 1..MaxSuffix}

InitPasses ==
    /\ \E n \in 1..Len(ExecSources) :
          \E choices \in [1..n -> PlanBases \cup {<<"fail">>}] :
             \E extra \in SUBSET PassExtras :
                arg = [results |-> [i \in 1..n |-> OutcomeOf(ExecSources[i], choices[i])],
                       d |-> {[path |-> ExecSources[i], content |-> "dated"] : i \in 1..n}
                                 \cup FolderOf("A", extra)]
    /\ ret = [op |-> "none", rows |-> <<>>, tasks |-> <<>>]
    /\ AppInit({})
    /\ libc_pads_year \in BOOLEAN

\* on_preview_finished hands the outcomes to update_preview_table.
CallPreviewPass ==
    /\ ret.op = "none"
    /\ ret' = [ret EXCEPT !.op = "preview_pass", !.rows = update_preview_table(arg.results)]
    /\ UNCHANGED <<arg, appVars>>

\* rename_files builds the tasks from the same outcomes on the folder as it is.
CallActualPass ==
    /\ ret.op = "preview_pass"
    /\ ret' = [ret EXCEPT !.op = "actual_pass", !.tasks = BuildTasks(arg.results, arg.d)]
    /\ UNCHANGED <<arg, appVars>>

NextPasses ==
    \/ CallPreviewPass
    \/ CallActualPass

SpecPasses == InitPasses /\ [][NextPasses]_vars

\* The positions of the Success outcomes, and the position of the j-th of them.
SuccessRows(results) == {i \in 1..Len(results) : results[i].error = "None"}

RECURSIVE NthSuccess(_, _, _)
NthSuccess(results, j, i) ==
    IF results[i].error = "None"
    THEN (IF j = 1 THEN i ELSE NthSuccess(results, j - 1, i + 1))
    ELSE NthSuccess(results, j, i + 1)

\* C24: within the preview pass, and within the actual pass, the names given to the
\* Success outcomes are pairwise distinct, also when several outcomes share their
\* base name and extension, in every order of the files.
C24_TargetsDistinct ==
    /\ ret.op # "none" =>
          \A i, j \in SuccessRows(arg.results) : i # j => ret.rows[i] # ret.rows[j]
    /\ ret.op = "actual_pass" =>
          /\ Len(ret.tasks) = Cardinality(SuccessRows(arg.results))
          /\ \A i, j \in 1..Len(ret.tasks) :
                i # j => ret.tasks[i].new_path # ret.tasks[j].new_path

\* Three files with the same base name and extension, planned in both passes.
C24_Witness ==
    /\ ret.op = "actual_pass"
    /\ Len(arg.results) = 3
    /\ \A i \in 1..3 : arg.results[i].error = "None" /\ arg.results[i].base_name = BaseCanon
    /\ ret.rows = <<Plain(BaseCanon, Jpg), Suffixed(BaseCanon, 1, Jpg),
                    Suffixed(BaseCanon, 2, Jpg)>>
    /\ Len(ret.tasks) = 3

\* No file of the folder is named base_name + extension or base_name_k + extension
\* for the base name of a Success outcome.
NoCollidingName(results, d) ==
    \A i \in SuccessRows(results) : \A f \in d :
        /\ BaseName(f.path) # Plain(results[i].base_name, results[i].extension)
        /\ \A k \in 1..(Cardinality(d) + MaxSuffix) :
              BaseName(f.path) # Suffixed(results[i].base_name, k, results[i].extension)

\* C26: when the folder holds no colliding name, the name the actual pass computes
\* for every Success outcome is the name the preview pass shows for it.
C26_PassesAgree ==
    (ret.op = "actual_pass" /\ NoCollidingName(arg.results, arg.d)) =>
        /\ Len(ret.tasks) = Cardinality(SuccessRows(arg.results))
        /\ \A j \in 1..Len(ret.tasks) :
              LET i == NthSuccess(arg.results, j, 1)
              IN  /\ ret.tasks[j].filepath = arg.results[i].filepath
                  /\ ret.tasks[j].new_path = Join(DirName(arg.results[i].filepath), ret.rows[i])

\* Two files sharing the base name 20210430_090000_Canon_1 and a failure between them,
\* in a folder that holds 20210430_090000_Canon.jpg: no name collides, and both passes
\* give the second file the suffix _1.
C26_Witness ==
    /\ ret.op = "actual_pass"
    /\ NoCollidingName(arg.results, arg.d)
    /\ Len(arg.results) = 3
    /\ arg.results[1].base_name = BaseCanon1
    /\ arg.results[2].error # "None"
    /\ arg.results[3].base_name = BaseCanon1
    /\ Exists(arg.d, Join("A", Plain(BaseCanon, Jpg)))
    /\ ret.rows[3] = Suffixed(BaseCanon1, 1, Jpg)
    /\ ret.tasks[2].new_path = Join("A", Suffixed(BaseCanon1, 1, Jpg))

----------------------------------------------------------------------------
(* Specification of the marker walk of parse_raw_exif, one segment a step   *)

\* Pieces of a file behind the start-of-image marker: APPn segments (n # 1) with the
\* declared lengths 0, 1, 2, with a payload and with a length beyond the end of the
\* file; APP1 segments with the lengths 0 and 1 and with a payload that is no Exif
\* block; a byte pair that is no marker; markers that are no APPn; markers cut short.
WalkPieces ==
    { <<255, 224, 0, 0>>, <<255, 224, 0, 1>>, <<255, 226, 0, 2>>, <<255, 239, 0, 4, 7, 7>>,
      <<255, 224, 1, 0>>,
      <<255, 225, 0, 0>>, <<255, 225, 0, 1>>, <<255, 225, 0, 4, 1, 2>>,
      <<0, 0>>, <<255, 217>>, <<255, 219, 0, 4, 1, 1>>, <<255>>, <<255, 224, 0>> }

\* Largest number of pieces before the end of the file or the Exif segment.
MaxPieces == 2

RECURSIVE Flatten(_)
Flatten(pieces) == IF pieces = <<>> THEN <<>> ELSE Head(pieces) \o Flatten(Tail(pieces))

\* The APP1 segment of JpegWithDateTime, or nothing, ends a drawn file.
WalkTails == {<<>>, SubSeq(JpegWithDateTime, 3, Len(JpegWithDateTime))}

WalkFiles ==
    UNION {{<<255, 216>> \o Flatten(pieces) \o tail :
               pieces \in [1..n -> WalkPieces], tail \in WalkTails} : n \in 0..MaxPieces}
    \cup {<<>>, <<255>>, <<0, 216>>, <<255, 217, 255, 224>>}

InitWalk ==
    /\ arg \in [raw : [readable : {TRUE}, bytes : WalkFiles]
                      \cup {[readable |-> FALSE, bytes |-> <<>>]}]
    /\ ret = [op |-> "none", pc |-> "open", pos |-> 0, found |-> FALSE, tiff_data |-> <<>>]
    /\ AppInit({})
    \* every drawn timestamp has a four-digit year: the library's choice has no effect
    /\ libc_pads_year = FALSE

\* Mutant: the offset is taken from the start of the marker.
SeekSegmentFromMarker(pos, length) == pos + length

\* f.seek(length - 2, os.SEEK_CUR) after the marker at pos and the length were read.
SeekSegment(pos, length) == pos + 4 + length - 2

\* open(filepath, 'rb'), header = f.read(2), f.seek(0), f.read(2).
WalkOpen ==
    /\ ret.op = "none"
    /\ ret' = IF ~arg.raw.readable \/ Slice(arg.raw.bytes, 0, 2) # <<255, 216>>
              THEN [ret EXCEPT !.op = "walk", !.pc = "done"]
              ELSE [ret EXCEPT !.op = "walk", !.pc = "loop", !.pos = 2]
    /\ UNCHANGED <<arg, appVars>>

\* One pass of the while True loop on data with the walk in state w (the file at
\* offset w.pos): the state of the walk after it. An Exif block ends the walk: found,
\* and tiff_data is what parse_tiff_data is called with.
MarkerPass(data, w) ==
    LET pos == w.pos
        marker == Slice(data, pos, 2)
        length_bytes == Slice(data, pos + 2, 2)
        length == BigEndian(length_bytes)
        exif_data == IF length = 1 THEN Slice(data, pos + 4, Len(data))
                     ELSE Slice(data, pos + 4, length - 2)
    IN  IF Len(marker) < 2 \/ marker[1] # 255
        THEN [w EXCEPT !.pc = "done"]
        ELSE IF marker[2] = 225
        THEN IF Len(length_bytes) < 2 \/ length = 0
             THEN [w EXCEPT !.pc = "done"]
             ELSE IF SubSeq(exif_data, 1, Min(6, Len(exif_data))) = ExifSignature
             THEN [w EXCEPT !.pc = "done", !.found = TRUE,
                            !.tiff_data = SubSeq(exif_data, 7, Len(exif_data))]
             ELSE [w EXCEPT !.pos = pos + 4 + Len(exif_data)]
        ELSE IF marker[2] \in 224..239
        THEN IF Len(length_bytes) < 2
             THEN [w EXCEPT !.pc = "done"]
             ELSE [w EXCEPT !.pos = SeekSegment(pos, length)]
        ELSE [w EXCEPT !.pc = "done"]

WalkStep ==
    /\ ret.pc = "loop"
    /\ ret' = MarkerPass(arg.raw.bytes, ret)
    /\ UNCHANGED <<arg, appVars>>

\* What parse_raw_exif returns once the walk is over: parse_tiff_data of the block
\* found, or the unknown pair.
WalkResult == IF ret.found THEN parse_tiff_data(ret.tiff_data) ELSE UnknownPair

NextWalk ==
    \/ WalkOpen
    \/ WalkStep

SpecWalk == InitWalk /\ [][NextWalk]_vars

\* The function runs on: a pass of the loop that can be made is made.
SpecWalkFair == SpecWalk /\ WF_vars(NextWalk)

\* The walk is at a place that ends it: the end of the data, a byte pair whose first
\* byte is not 0xFF, or a type byte outside 0xE0-0xEF.
AtEnd ==
    LET marker == Slice(arg.raw.bytes, ret.pos, 2)
    IN  Len(marker) < 2 \/ marker[1] # 255 \/ marker[2] \notin 224..239

\* C27: the marker walk comes to an end on every file, also when a segment declares
\* the length 0 or 1 or a length beyond the end of the file; and at the end of the
\* data, at a byte pair whose first byte is not 0xFF and at a type byte outside
\* 0xE0-0xEF it ends in that pass with no timestamp.
C27_WalkTerminates ==
    /\ <>(ret.pc = "done")
    /\ [][(ret.pc = "loop" /\ AtEnd) => (ret'.pc = "done" /\ ~ret'.found)]_vars
    /\ [](ret.pc = "done" /\ ~ret.found => WalkResult[1] = UnknownTime)

\* An APPn segment of declared length 0, whose length bytes were then read as a marker
\* and ended the walk, the Exif segment behind it unread.
C27_Witness ==
    /\ ret.pc = "done"
    /\ ret.pos = 4
    /\ arg.raw.bytes = <<255, 216, 255, 224, 0, 0>> \o SubSeq(JpegWithDateTime, 3, Len(JpegWithDateTime))
    /\ WalkResult = UnknownPair

=============================================================================
